---- MODULE Spec2Model ----
(***************************************************************************)
(* Entity-lifecycle tracking, wide-table row projection and batch          *)
(* coordination of the SC2 replay extraction pipeline (src/src_new).       *)
(*                                                                         *)
(* The module holds one state machine per component; each has its own      *)
(* specification, and a specification leaves the variables of the other    *)
(* components unchanged:                                                   *)
(*   SpecUE     UnitExtractor        (extractors/unit_extractor.py)        *)
(*   SpecUT     UnitTracker          (extraction/state_extractor.py)       *)
(*   SpecRow    SchemaManager + WideTableBuilder                           *)
(*   SpecBatch  ParallelReplayProcessor.process_replay_batch               *)
(***************************************************************************)
EXTENDS Integers, Sequences, FiniteSets, TLC

(***************************************************************************)
(* Bounds of the model.                                                    *)
(***************************************************************************)
\* tags the game issues: 1..MaxTag
MaxTag == 2

Tags == 1..MaxTag

\* frames one job extracts before the next job starts
MaxFrames == 3

(***************************************************************************)
(* Program constants.                                                      *)
(***************************************************************************)
\* StateExtractor builds UnitExtractor(player_id=1) (and one for player 2)
player_id == 1

\* unit.owner values of a two-player replay
Owners == {1, 2}

\* unit_extractor.BUILDING_TYPES
BUILDING_TYPES ==
    {18, 19, 20, 21, 27, 28, 29, 41, 43, 45, 46, 47, 48,
     59, 60, 61, 62, 63, 66, 67, 68, 69, 70, 71, 72, 73, 74, 75,
     86, 88, 89, 90, 91, 92, 93, 94, 95, 96, 97, 98, 99, 100}

\* unit_type values the observations of the model carry: one id of
\* BUILDING_TYPES (21) and two ids outside it (51, 105)
ObservedTypes == {21, 51, 105}

\* unit.build_progress in percent: 50 stands for any value below 1.0
Progresses == {50, 100}

is_building(unit_type_id) == unit_type_id \in BUILDING_TYPES

\* building_extractor.BUILDING_TYPES
BE_BUILDING_TYPES ==
    {18, 19, 20, 21, 22, 27, 28, 29, 36, 41, 43, 45, 46, 47, 48,
     130, 132, 133, 134, 135, 138, 139, 142, 143,
     59, 60, 61, 62, 63, 64, 66, 67, 68, 69, 70, 71, 72, 74, 75,
     86, 88, 89, 90, 91, 92, 93, 94, 95, 96, 97, 98, 99, 100, 101, 104, 87, 137}

\* building_extractor.is_building
be_is_building(unit_type_id) == unit_type_id \in BE_BUILDING_TYPES

\* pysc2's type-name lookup, lower-cased by the callers; distinct type ids
\* have distinct names (unknown ids become "Unknown(<id>)")
get_unit_type_name(unit_type_id) == <<"type", unit_type_id>>

\* the format specification 03d: at least three decimal digits
Pad3(n) ==
    IF n < 1000 THEN <<n \div 100, (n \div 10) % 10, n % 10>>
    ELSE <<n>>

(***************************************************************************)
(* Observations: raw_data.units is an ordered list of unit snapshots with  *)
(* distinct tags, here in ascending or in descending tag order.            *)
(***************************************************************************)
Snapshot(o, ty, bp) == [owner |-> o, unit_type |-> ty, build_progress |-> bp]

\* what one tag can be in a frame: an own unit of two types (complete or
\* still in production), a unit of the other player, an own building
UnitKinds ==
    {Snapshot(1, 51, 100), Snapshot(1, 51, 50), Snapshot(1, 105, 100),
     Snapshot(2, 51, 100), Snapshot(1, 21, 100)}

\* a frame: the tags present, each with its snapshot
Frames == UNION {[present -> UnitKinds] : present \in SUBSET Tags}

RECURSIVE Ascending(_, _)
Ascending(S, n) ==
    IF n > MaxTag THEN <<>>
    ELSE IF n \in S THEN <<n>> \o Ascending(S, n + 1)
    ELSE Ascending(S, n + 1)

Reverse(s) == [i \in 1..Len(s) |-> s[Len(s) + 1 - i]]

\* the unit list of frame f: tag, owner, unit_type, build_progress per unit
RawUnits(f, descending) ==
    LET order == IF descending THEN Reverse(Ascending(DOMAIN f, 1))
                 ELSE Ascending(DOMAIN f, 1)
    IN  [i \in 1..Len(order) |->
            [tag |-> order[i], owner |-> f[order[i]].owner,
             unit_type |-> f[order[i]].unit_type,
             build_progress |-> f[order[i]].build_progress]]

VARIABLES
    \* ---- UnitExtractor ----
    tag_to_readable_id,   \* tag -> readable id
    unit_type_counters,   \* unit_type_id -> next sequence number
    previous_tags,        \* tags of the previous frame
    all_seen_tags,        \* every tag ever processed
    units_data,           \* the dict returned by the last extract()
    ue_prev_before,       \* history: previous_tags when the last extract() began
    ue_dead_units,        \* history: raw_data.event.dead_units of the last extract()
    ue_killed_before,     \* history: [tag, id] reported 'killed' by earlier extract() calls
    ue_first_id,          \* history: tag -> id minted at its first observation
    ue_frames,            \* history: extract() calls of the current job
    ue_raised,            \* <<>>, or <<r>> when the last extract() raised: r.tag
                          \* is the record that could not be read, r.others
                          \* the other own units of the frame
    \* ---- UnitTracker ----
    unit_registry,        \* tag -> <<unit_type, id_num>>
    unit_counters,        \* unit_type -> next id_num
    previous_frame_tags,  \* tags of the previous frame
    tracked_units,        \* the dict returned by the last process_units()
    ut_prev_before,       \* history: previous_frame_tags when the last call began
    ut_active_id,         \* history: tag -> id it got in the frame it last became active
    ut_mint_log,          \* history: first observations, in order: tag, unit_type, id
    \* ---- SchemaManager and WideTableBuilder ----
    columns,              \* SchemaManager.columns, in order
    dtypes,               \* SchemaManager.dtypes: column -> declared type
    seen_units,           \* SchemaManager._seen_units
    seen_buildings,       \* SchemaManager._seen_buildings
    row,                  \* the dict returned by the last build_row()
    row_call,             \* history: <<>>, or the columns and state of that call
    \* ---- ParallelReplayProcessor.process_replay_batch ----
    pc,                   \* "idle", "collecting" (inside the with block) or "returned"
    replay_paths,         \* the argument of the call
    future_state,         \* future of job i -> "pending", "running" or "finished"
    future_result,        \* future of job i -> what future.result() gives
    yielded,              \* futures as_completed has handed to the loop
    results,              \* the results dict
    ran,                  \* history: jobs whose _worker_process_replay returned
    crashed,              \* history: jobs whose worker process died
    \* ---- BuildingExtractor ----
    be_tag_to_readable_id,    \* tag -> readable id
    building_type_counters,   \* building_type_id -> next sequence number
    be_previous_tags,         \* tags of the previous frame
    be_all_seen_tags,         \* every building tag ever processed
    completion_timestamps,    \* tag -> game_loop when completed
    destruction_timestamps,   \* tag -> game_loop when destroyed
    previous_build_progress,  \* tag -> build_progress last reported
    buildings_data,           \* the dict returned by the last extract()
    be_frames,                \* history: extract() calls of the current job
    be_log,                   \* history: id -> the records extract() returned for it
    \* ---- OutputValidator ----
    val_parquet,              \* <<>>, or <<df>>: the game state file a job wrote
    val_report,               \* <<>>, or <<report>> of validate_game_state_parquet
    \* ---- ReplayExtractionPipeline.process_replay ----
    pipe_pc,                  \* "idle", "pass1", "pass2" or "done"
    processing_mode,          \* config: "two_pass" or "single_pass"
    step_size,                \* config: game loops per step of the extraction pass
    pipe_replay,              \* the replay: the observation after each game loop
    pipe_position,            \* game loops the controller has stepped in this pass
    pipe_game_loop,           \* the local game_loop of _extract_and_write: the
                              \* game loop of the last observation it received
    pipe_broken,              \* the controller of the extraction pass fails on
                              \* every call (replay ended, SC2 process gone)
    pipe_extractor,           \* the state of state_extractor (player 1's UnitExtractor)
    pipe_schema,              \* schema_manager: columns, dtypes and the _seen sets
    pipe_rows,                \* rows of _extract_and_write
    \* ---- two runs of build_schema_from_replay over one replay ----
    scan_replay,              \* the frames both runs scan
    scan_position,            \* frames both runs have scanned
    scan_runs,                \* per run: its hash seed, the order its observations
                              \* list the units in, its extractor and its schema
    \* ---- one owned object of an observation, seen by both extractors ----
    own_type,                 \* <<>> or <<unit_type>> of the object
    own_reported,             \* the extractors whose extract() reports the object
    \* ---- the lifecycle of one unit id in GameStateTracker ----
    life_unit,                \* GameStateTracker.units[unit_id] of one unit id: <<>>
                              \* or <<lifecycle>>
    life_frame,               \* frame of the last event the tracker was given
    life_query,               \* <<>> or <<[frame, alive]>>: the last
                              \* is_alive_at_frame call and what it returned
    \* ---- FrameSampler.sample_frames ----
    sample_call,              \* <<>> or <<[frames, interval_frames]>>: the last
                              \* sample_frames call
    samples                   \* the list it returned, a state being its frame

ueVars == <<tag_to_readable_id, unit_type_counters, previous_tags, all_seen_tags,
            units_data, ue_prev_before, ue_dead_units, ue_killed_before, ue_first_id,
            ue_frames, ue_raised>>

utVars == <<unit_registry, unit_counters, previous_frame_tags, tracked_units,
            ut_prev_before, ut_active_id, ut_mint_log>>

rowVars == <<columns, dtypes, seen_units, seen_buildings, row, row_call>>

batchVars == <<pc, replay_paths, future_state, future_result, yielded, results,
               ran, crashed>>

beVars == <<be_tag_to_readable_id, building_type_counters, be_previous_tags,
            be_all_seen_tags, completion_timestamps, destruction_timestamps,
            previous_build_progress, buildings_data, be_frames, be_log>>

valVars == <<val_parquet, val_report>>

pipeVars == <<pipe_pc, processing_mode, step_size, pipe_replay, pipe_position,
              pipe_game_loop, pipe_broken, pipe_extractor, pipe_schema, pipe_rows>>

scanVars == <<scan_replay, scan_position, scan_runs>>

ownVars == <<own_type, own_reported>>

lifeVars == <<life_unit, life_frame, life_query>>

sampleVars == <<sample_call, samples>>

vars == <<ueVars, utVars, rowVars, batchVars, beVars, valVars, pipeVars, scanVars,
          ownVars, lifeVars, sampleVars>>

EmptyFn == [x \in {} |-> 0]

(***************************************************************************)
(* UnitExtractor                                                           *)
(***************************************************************************)
UEInit ==
    /\ tag_to_readable_id = EmptyFn
    /\ unit_type_counters = EmptyFn
    /\ previous_tags = {}
    /\ all_seen_tags = {}
    /\ units_data = EmptyFn
    /\ ue_prev_before = {}
    /\ ue_dead_units = {}
    /\ ue_killed_before = {}
    /\ ue_first_id = EmptyFn
    /\ ue_frames = 0
    /\ ue_raised = <<>>

\* _assign_readable_id with one counter shared by all unit types
ue_assign_readable_id_one_counter(counters, unit_type_id) ==
    LET started == IF 0 \in DOMAIN counters THEN counters ELSE counters @@ (0 :> 1)
        counter == started[0]
    IN  [id |-> <<player_id, get_unit_type_name(unit_type_id), Pad3(counter)>>,
         counters |-> [started EXCEPT ![0] = @ + 1]]

\* _assign_readable_id: the id and the counters after the call
ue_assign_readable_id(counters, unit_type_id) ==
    LET started == IF unit_type_id \in DOMAIN counters
                   THEN counters
                   ELSE counters @@ (unit_type_id :> 1)
        counter == started[unit_type_id]
    IN  [id |-> <<player_id, get_unit_type_name(unit_type_id), Pad3(counter)>>,
         counters |-> [started EXCEPT ![unit_type_id] = @ + 1]]

\* _determine_state without its build_progress branch
ue_determine_state_by_presence(tag, unit, prev) ==
    IF tag \notin prev THEN "built" ELSE "existing"

\* _determine_state
ue_determine_state(tag, unit, prev) ==
    IF tag \notin prev THEN "built"
    ELSE IF unit.build_progress < 100 THEN "built"
    ELSE "existing"

\* the loop over raw_data.units of extract(); st carries tag_to_readable_id,
\* unit_type_counters, all_seen_tags, current_tags and units_data
RECURSIVE ue_process_units(_, _, _, _)
ue_process_units(units, i, prev, st) ==
    IF i > Len(units) THEN st
    ELSE
      LET unit == units[i] IN
      IF unit.owner # player_id THEN ue_process_units(units, i + 1, prev, st)
      ELSE IF is_building(unit.unit_type) THEN ue_process_units(units, i + 1, prev, st)
      ELSE
        LET tag == unit.tag
            minted == ue_assign_readable_id(st.counters, unit.unit_type)
            isNew == tag \notin DOMAIN st.ids
            ids == IF isNew THEN st.ids @@ (tag :> minted.id) ELSE st.ids
            readable_id == ids[tag]
            unit_data == [tag |-> tag,
                          unit_type_id |-> unit.unit_type,
                          state |-> ue_determine_state(tag, unit, prev),
                          build_progress |-> unit.build_progress]
        IN  ue_process_units(units, i + 1, prev,
              [ids      |-> ids,
               counters |-> IF isNew THEN minted.counters ELSE st.counters,
               seen     |-> st.seen \cup {tag},
               current  |-> st.current \cup {tag},
               data     |-> [x \in DOMAIN st.data \cup {readable_id} |->
                               IF x = readable_id THEN unit_data ELSE st.data[x]]])

\* the set difference taken the wrong way round
ue_dead_tags_swapped(prev, current) == current \ prev

\* dead_tags = previous_tags - current_tags
ue_dead_tags(prev, current) == prev \ current

KilledRecord(tag) == [tag |-> tag, state |-> "killed"]

\* "Detect dead units": every tag of the previous frame that is gone
ue_mark_dead(data, ids, prev, current) ==
    LET dead == {t \in ue_dead_tags(prev, current) : t \in DOMAIN ids}
        deadIds == {ids[t] : t \in dead}
    IN  [x \in DOMAIN data \cup deadIds |->
            IF x \in deadIds
            THEN KilledRecord(CHOOSE t \in dead : ids[t] = x)
            ELSE data[x]]

\* "Also check explicit dead units from event": only ids not yet in units_data
ue_mark_event_dead(data, ids, seen, dead_units) ==
    LET dead == {t \in dead_units : t \in DOMAIN ids /\ t \in seen
                                    /\ ids[t] \notin DOMAIN data}
        deadIds == {ids[t] : t \in dead}
    IN  [x \in DOMAIN data \cup deadIds |->
            IF x \in deadIds
            THEN KilledRecord(CHOOSE t \in dead : ids[t] = x)
            ELSE data[x]]

\* the baseline kept as the union of all frames' tags
ue_commit_accumulated(prev, current_tags) == prev \cup current_tags

\* "Update previous tags for next iteration": self.previous_tags = current_tags,
\* the last statement of extract()
ue_commit_previous_tags(prev, current_tags) == current_tags

\* UnitExtractor.extract(obs)
UEExtract(units, dead_units) ==
    LET st == ue_process_units(units, 1, previous_tags,
                [ids |-> tag_to_readable_id, counters |-> unit_type_counters,
                 seen |-> all_seen_tags, current |-> {}, data |-> EmptyFn])
        withDead == ue_mark_dead(st.data, st.ids, previous_tags, st.current)
        withEvent == ue_mark_event_dead(withDead, st.ids, st.seen, dead_units)
    IN  /\ tag_to_readable_id' = st.ids
        /\ unit_type_counters' = st.counters
        /\ all_seen_tags' = st.seen
        /\ units_data' = withEvent
        /\ previous_tags' = ue_commit_previous_tags(previous_tags, st.current)
        /\ ue_prev_before' = previous_tags
        /\ ue_dead_units' = dead_units
        /\ ue_killed_before' = ue_killed_before \cup
              {[tag |-> units_data[x].tag, id |-> x] :
                  x \in {y \in DOMAIN units_data : units_data[y].state = "killed"}}
        /\ ue_first_id' = [t \in DOMAIN st.ids |->
              IF t \in DOMAIN ue_first_id THEN ue_first_id[t] ELSE st.ids[t]]
        /\ ue_frames' = ue_frames + 1
        /\ ue_raised' = <<>>

UEFrame ==
    \E f \in Frames, descending \in BOOLEAN, dead_units \in SUBSET Tags :
        /\ ue_frames < MaxFrames
        /\ descending => Cardinality(DOMAIN f) > 1
        /\ UEExtract(RawUnits(f, descending), dead_units)
        /\ UNCHANGED <<utVars, rowVars, batchVars, beVars, valVars, pipeVars, scanVars, ownVars, lifeVars, sampleVars>>

\* UnitExtractor.reset(): a new job
UEReset ==
    /\ tag_to_readable_id' = EmptyFn
    /\ unit_type_counters' = EmptyFn
    /\ previous_tags' = {}
    /\ all_seen_tags' = {}
    /\ units_data' = EmptyFn
    /\ ue_prev_before' = {}
    /\ ue_dead_units' = {}
    /\ ue_killed_before' = {}
    /\ ue_first_id' = EmptyFn
    /\ ue_frames' = 0
    /\ ue_raised' = <<>>
    /\ UNCHANGED <<utVars, rowVars, batchVars, beVars, valVars, pipeVars, scanVars, ownVars, lifeVars, sampleVars>>

UENext == UEFrame \/ UEReset

\* the own non-building units of a raw unit list
OwnUnitTags(units) ==
    {units[i].tag : i \in {j \in 1..Len(units) :
                              /\ units[j].owner = player_id
                              /\ ~is_building(units[j].unit_type)}}

\* UnitExtractor.extract(obs) when reading an attribute of the own unit with
\* tag bad raises while its unit_data dict is built: the units before it
\* have been processed, the tag is in all_seen_tags and has its id, and the
\* exception leaves extract() before the dead-unit loops and before
\* previous_tags is assigned.  There is no try/except in the loop, in
\* extract_units or in extract_observation, so no dict is returned.
UEExtractRaises(units, bad) ==
    LET i == CHOOSE j \in 1..Len(units) : units[j].tag = bad
        st == ue_process_units(SubSeq(units, 1, i), 1, previous_tags,
                [ids |-> tag_to_readable_id, counters |-> unit_type_counters,
                 seen |-> all_seen_tags, current |-> {}, data |-> EmptyFn])
    IN  /\ tag_to_readable_id' = st.ids
        /\ unit_type_counters' = st.counters
        /\ all_seen_tags' = st.seen
        /\ units_data' = EmptyFn
        /\ ue_raised' = <<[tag |-> bad, others |-> OwnUnitTags(units) \ {bad}]>>
        /\ ue_killed_before' = ue_killed_before \cup
              {[tag |-> units_data[x].tag, id |-> x] :
                  x \in {y \in DOMAIN units_data : units_data[y].state = "killed"}}
        /\ ue_first_id' = [t \in DOMAIN st.ids |->
              IF t \in DOMAIN ue_first_id THEN ue_first_id[t] ELSE st.ids[t]]
        /\ ue_frames' = ue_frames + 1
        /\ UNCHANGED <<previous_tags, ue_prev_before, ue_dead_units>>

\* a frame with one unit record whose attributes cannot be read
UEFrameMalformed ==
    \E f \in Frames, descending \in BOOLEAN :
        /\ ue_frames < MaxFrames
        /\ descending => Cardinality(DOMAIN f) > 1
        /\ \E bad \in OwnUnitTags(RawUnits(f, descending)) :
              UEExtractRaises(RawUnits(f, descending), bad)
        /\ UNCHANGED <<utVars, rowVars, batchVars, beVars, valVars, pipeVars, scanVars, ownVars, lifeVars, sampleVars>>

UEMalformedNext == UEFrame \/ UEReset \/ UEFrameMalformed

\* ids the last extract() reported with a state other than 'killed'
UELiveIds == {x \in DOMAIN units_data : units_data[x].state # "killed"}

(***************************************************************************)
(* Claims about UnitExtractor (SpecUE)                                     *)
(***************************************************************************)

\* the tags the dict of the last extract() reports with a live state
UELiveTags == {units_data[x].tag : x \in UELiveIds}

C29_MalformedRecordSkipped ==
    Len(ue_raised) = 1 =>
        \A t \in ue_raised[1].others :
            /\ t \in DOMAIN tag_to_readable_id
            /\ tag_to_readable_id[t] \in DOMAIN units_data

\* C1: a tag reported 'killed' and observed again later is given an id that
\* differs from the id it had before, and no id that was reported 'killed'
\* is handed out again to a newly observed tag.
C1_ReusedTagGetsFreshId ==
    \A x \in UELiveIds :
        units_data[x].tag \notin ue_prev_before =>
            \A k \in ue_killed_before : k.id # x

\* C2: once 'killed' has been recorded for an id, no later frame records any
\* other state for that id.
C2_DestroyedIsTerminal ==
    \A k \in ue_killed_before :
        k.id \in DOMAIN units_data => units_data[k.id].state = "killed"

\* C3: a tag that was active in the previous frame and is in the frame's
\* dead_units is reported 'killed' in this frame, present in the unit list
\* or not.
C3_ExplicitDestroyedWins ==
    \A t \in ue_prev_before \cap ue_dead_units :
        /\ t \in DOMAIN tag_to_readable_id
        /\ tag_to_readable_id[t] \in DOMAIN units_data
        /\ units_data[tag_to_readable_id[t]].state = "killed"

\* C9 as claimed: a present tag is 'built' exactly when it was not in the
\* previous frame's set, and 'existing' exactly when it was.
C9_StateByPresenceOnly ==
    \A x \in UELiveIds :
        /\ units_data[x].state = "built" <=> units_data[x].tag \notin ue_prev_before
        /\ units_data[x].state = "existing" <=> units_data[x].tag \in ue_prev_before

\* C9 as amended: every tag of the current frame has one record; it is
\* 'built' exactly when the tag was not in the previous frame's set or its
\* build_progress is below 1.0, and 'existing' exactly when the tag was in
\* the previous frame's set and its build_progress is at least 1.0.
C9_StateByPresenceAndProgress ==
    /\ \A t \in previous_tags :
          /\ t \in DOMAIN tag_to_readable_id
          /\ tag_to_readable_id[t] \in UELiveIds
          /\ units_data[tag_to_readable_id[t]].tag = t
    /\ \A x \in UELiveIds :
          /\ units_data[x].tag \in previous_tags
          /\ units_data[x].state = "built" <=>
                (units_data[x].tag \notin ue_prev_before
                 \/ units_data[x].build_progress < 100)
          /\ units_data[x].state = "existing" <=>
                (units_data[x].tag \in ue_prev_before
                 /\ units_data[x].build_progress >= 100)

\* a tag active in both frames that is still in production, next to one
\* that is complete
C9_Witness ==
    /\ \E x \in UELiveIds :
          /\ units_data[x].tag \in ue_prev_before
          /\ units_data[x].build_progress < 100
          /\ units_data[x].state = "built"
    /\ \E x \in UELiveIds :
          /\ units_data[x].tag \in ue_prev_before
          /\ units_data[x].state = "existing"

\* C10: a tag of the previous frame that is absent from the current frame
\* has exactly one record in the current frame's output, a 'killed' record
\* keyed by the id minted when the tag was first observed.
C10_AbsentTagKilledOnce ==
    \A t \in ue_prev_before \ previous_tags :
        /\ t \in DOMAIN ue_first_id
        /\ ue_first_id[t] \in DOMAIN units_data
        /\ units_data[ue_first_id[t]] = KilledRecord(t)
        /\ \A x \in DOMAIN units_data :
              units_data[x].tag = t => x = ue_first_id[t]

\* a tag first seen two frames ago, seen again, and gone in the third frame
C10_Witness ==
    /\ ue_frames = 3
    /\ \E t \in ue_prev_before \ previous_tags :
          /\ t \in DOMAIN ue_first_id
          /\ \E x \in DOMAIN units_data : units_data[x] = KilledRecord(t)
    /\ previous_tags # {}


\* C11: a tag that was active in the previous frame, is in this frame's
\* dead_units and is in this frame's unit list again (destroyed and reissued
\* within the frame) has 'killed' recorded under its old id and 'built'
\* recorded under a new, different id.
C11_ReissuedInFrameDestroyedThenCreated ==
    \A t \in (ue_prev_before \cap ue_dead_units) \cap previous_tags :
        LET old == ue_first_id[t]
        IN  /\ old \in DOMAIN units_data
            /\ units_data[old].state = "killed"
            /\ \E x \in UELiveIds :
                  x # old /\ units_data[x].tag = t /\ units_data[x].state = "built"

(***************************************************************************)
(* UnitTracker                                                             *)
(***************************************************************************)
UTInit ==
    /\ unit_registry = EmptyFn
    /\ unit_counters = EmptyFn
    /\ previous_frame_tags = {}
    /\ tracked_units = EmptyFn
    /\ ut_prev_before = {}
    /\ ut_active_id = EmptyFn
    /\ ut_mint_log = <<>>

\* f"unit_{unit_type}_{id_num:03d}"
UnitId(unit_type, id_num) == <<"unit", unit_type, Pad3(id_num)>>

\* assign_unit_id that mints a new id on every call
ut_assign_unit_id_always_new(registry, counters, tag, unit_type) ==
    LET started == IF unit_type \in DOMAIN counters
                   THEN counters
                   ELSE counters @@ (unit_type :> 1)
        id_num == started[unit_type]
    IN  [id |-> UnitId(unit_type, id_num),
         registry |-> [t \in DOMAIN registry \cup {tag} |->
                         IF t = tag THEN <<unit_type, id_num>> ELSE registry[t]],
         counters |-> [started EXCEPT ![unit_type] = @ + 1]]

\* assign_unit_id that leaves the counter where it was
ut_assign_unit_id_no_increment(registry, counters, tag, unit_type) ==
    IF tag \in DOMAIN registry
    THEN [id |-> UnitId(registry[tag][1], registry[tag][2]),
          registry |-> registry, counters |-> counters]
    ELSE
      LET started == IF unit_type \in DOMAIN counters
                     THEN counters
                     ELSE counters @@ (unit_type :> 1)
          id_num == started[unit_type]
      IN  [id |-> UnitId(unit_type, id_num),
           registry |-> registry @@ (tag :> <<unit_type, id_num>>),
           counters |-> started]

\* assign_unit_id: the id, and the registry and counters after the call
ut_assign_unit_id(registry, counters, tag, unit_type) ==
    IF tag \in DOMAIN registry
    THEN [id |-> UnitId(registry[tag][1], registry[tag][2]),
          registry |-> registry, counters |-> counters]
    ELSE
      LET started == IF unit_type \in DOMAIN counters
                     THEN counters
                     ELSE counters @@ (unit_type :> 1)
          id_num == started[unit_type]
      IN  [id |-> UnitId(unit_type, id_num),
           registry |-> registry @@ (tag :> <<unit_type, id_num>>),
           counters |-> [started EXCEPT ![unit_type] = @ + 1]]

\* detect_state
ut_detect_state(tag, current_tags, prev) ==
    IF tag \notin prev THEN "built" ELSE "existing"

\* the loop over raw_units of process_units(); st carries unit_registry,
\* unit_counters, current_tags and tracked_units, and the two histories.
\* The records' position and game_loop fields are copies of the arguments
\* that the tracker never reads; they are left out.
RECURSIVE ut_process_raw_units(_, _, _, _)
ut_process_raw_units(units, i, prev, st) ==
    IF i > Len(units) THEN st
    ELSE
      LET unit == units[i]
          tag == unit.tag
          current == st.current \cup {tag}
          assigned == ut_assign_unit_id(st.registry, st.counters, tag, unit.unit_type)
          unit_id == assigned.id
          record == [tag |-> tag,
                     unit_type |-> unit.unit_type,
                     state |-> ut_detect_state(tag, current, prev)]
      IN  ut_process_raw_units(units, i + 1, prev,
            [registry |-> assigned.registry,
             counters |-> assigned.counters,
             current  |-> current,
             tracked  |-> [x \in DOMAIN st.tracked \cup {unit_id} |->
                             IF x = unit_id THEN record ELSE st.tracked[x]],
             active   |-> IF tag \in prev THEN st.active
                          ELSE [t \in DOMAIN st.active \cup {tag} |->
                                  IF t = tag THEN unit_id ELSE st.active[t]],
             log      |-> IF tag \in DOMAIN st.registry THEN st.log
                          ELSE Append(st.log, [tag |-> tag,
                                               unit_type |-> unit.unit_type,
                                               id |-> unit_id])])

\* "Detect killed units"
ut_mark_killed(tracked, registry, prev, current) ==
    LET dead == {t \in prev \ current : t \in DOMAIN registry}
        deadIds == {UnitId(registry[t][1], registry[t][2]) : t \in dead}
    IN  [x \in DOMAIN tracked \cup deadIds |->
            IF x \in deadIds
            THEN [tag |-> CHOOSE t \in dead : UnitId(registry[t][1], registry[t][2]) = x,
                  state |-> "killed"]
            ELSE tracked[x]]

\* UnitTracker.process_units(raw_units, game_loop)
UTProcessUnits(units) ==
    LET st == ut_process_raw_units(units, 1, previous_frame_tags,
                [registry |-> unit_registry, counters |-> unit_counters,
                 current |-> {}, tracked |-> EmptyFn,
                 active |-> ut_active_id, log |-> ut_mint_log])
    IN  /\ unit_registry' = st.registry
        /\ unit_counters' = st.counters
        /\ tracked_units' = ut_mark_killed(st.tracked, st.registry,
                                           previous_frame_tags, st.current)
        /\ previous_frame_tags' = st.current
        /\ ut_prev_before' = previous_frame_tags
        /\ ut_active_id' = st.active
        /\ ut_mint_log' = st.log

\* the unit lists UnitTracker is given: it reads tag and unit_type only, so
\* one owner, one build_progress and the two non-building types are enough
UTFrames ==
    {f \in Frames : \A t \in DOMAIN f :
        f[t].owner = 1 /\ f[t].build_progress = 100 /\ ~is_building(f[t].unit_type)}

UTFrame ==
    \E f \in UTFrames, descending \in BOOLEAN :
        /\ descending => Cardinality(DOMAIN f) > 1
        /\ UTProcessUnits(RawUnits(f, descending))
        /\ UNCHANGED <<ueVars, rowVars, batchVars, beVars, valVars, pipeVars, scanVars, ownVars, lifeVars, sampleVars>>

\* UnitTracker.reset(): a new job
UTReset ==
    /\ unit_registry' = EmptyFn
    /\ unit_counters' = EmptyFn
    /\ previous_frame_tags' = {}
    /\ tracked_units' = EmptyFn
    /\ ut_prev_before' = {}
    /\ ut_active_id' = EmptyFn
    /\ ut_mint_log' = <<>>
    /\ UNCHANGED <<ueVars, rowVars, batchVars, beVars, valVars, pipeVars, scanVars, ownVars, lifeVars, sampleVars>>

UTNext == UTFrame \/ UTReset

\* ids the last process_units() reported with a state other than 'killed'
UTLiveIds == {x \in DOMAIN tracked_units : tracked_units[x].state # "killed"}

\* how many of the first i first observations had the unit type of the i-th
UTRankInType(i) ==
    Cardinality({j \in 1..i : ut_mint_log[j].unit_type = ut_mint_log[i].unit_type})

(***************************************************************************)
(* Claims about UnitTracker (SpecUT)                                       *)
(***************************************************************************)

\* C7: a tag that stays active keeps, in every later frame, the id it was
\* given in the frame it became active, whatever other tags are assigned
\* in between.
C7_ActiveTagKeepsId ==
    \A t \in previous_frame_tags \cap ut_prev_before :
        /\ t \in DOMAIN ut_active_id
        /\ ut_active_id[t] \in UTLiveIds
        /\ tracked_units[ut_active_id[t]].tag = t
        /\ \A x \in UTLiveIds : tracked_units[x].tag = t => x = ut_active_id[t]

\* the first tag ever observed is active in two frames in a row, reported
\* 'existing' under its id, after another tag has been given an id too
C7_Witness ==
    /\ \E t \in previous_frame_tags \cap ut_prev_before :
          /\ Len(ut_mint_log) >= 2
          /\ ut_mint_log[1].tag = t
          /\ tracked_units[ut_active_id[t]].state = "existing"

Players == <<"p1", "p2">>

\* _add_base_columns
BASE_COLUMNS ==
    << [name |-> "game_loop", dtype |-> "int64"],
       [name |-> "timestamp_seconds", dtype |-> "float64"] >>

\* add_unit_columns: unit_columns
UNIT_COLUMNS ==
    << [attr |-> "x", dtype |-> "float64"], [attr |-> "y", dtype |-> "float64"],
       [attr |-> "z", dtype |-> "float64"], [attr |-> "health", dtype |-> "float64"],
       [attr |-> "health_max", dtype |-> "float64"],
       [attr |-> "shields", dtype |-> "float64"],
       [attr |-> "shields_max", dtype |-> "float64"],
       [attr |-> "energy", dtype |-> "float64"],
       [attr |-> "energy_max", dtype |-> "float64"],
       [attr |-> "state", dtype |-> "string"] >>

\* add_building_columns: building_columns
BUILDING_COLUMNS ==
    << [attr |-> "x", dtype |-> "float64"], [attr |-> "y", dtype |-> "float64"],
       [attr |-> "z", dtype |-> "float64"], [attr |-> "status", dtype |-> "string"],
       [attr |-> "progress", dtype |-> "int64"],
       [attr |-> "started_loop", dtype |-> "int64"],
       [attr |-> "completed_loop", dtype |-> "int64"],
       [attr |-> "destroyed_loop", dtype |-> "int64"] >>

\* _add_economy_columns: economy_columns (all int64)
ECONOMY_COLUMNS ==
    <<"minerals", "vespene", "supply_used", "supply_cap", "workers", "idle_workers">>

\* _add_upgrade_columns: common_upgrades (all int64)
COMMON_UPGRADES == <<"attack_level", "armor_level", "shield_level">>

\* the names of a column list
Names(cols) == {cols[i] : i \in 1..Len(cols)}

\* the loop without its "if col_name not in self.columns"
AddColumns_unchecked(sch, new) ==
    [columns |-> sch.columns \o [i \in 1..Len(new) |-> new[i].name],
     dtypes |-> [c \in DOMAIN sch.dtypes \cup {new[i].name : i \in 1..Len(new)} |->
                   IF \E i \in 1..Len(new) : new[i].name = c
                   THEN new[CHOOSE i \in 1..Len(new) : new[i].name = c].dtype
                   ELSE sch.dtypes[c]]]

\* a schema is the column list and the declared types.  One loop of
\* "if col_name not in self.columns: self.columns.append(col_name);
\* self.dtypes[col_name] = dtype" over a list of distinct (name, dtype)
AddColumns(sch, new) ==
    LET fresh == SelectSeq(new, LAMBDA c : c.name \notin Names(sch.columns))
        freshNames == {fresh[i].name : i \in 1..Len(fresh)}
    IN  [columns |-> sch.columns \o [i \in 1..Len(fresh) |-> fresh[i].name],
         dtypes |-> [c \in DOMAIN sch.dtypes \cup freshNames |->
                       IF c \in freshNames
                       THEN fresh[CHOOSE i \in 1..Len(fresh) : fresh[i].name = c].dtype
                       ELSE sch.dtypes[c]]]

sm_add_base_columns(sch) == AddColumns(sch, BASE_COLUMNS)

\* f'{prefix}_{col_suffix}' for each (col_suffix, dtype) of a column list
Prefixed(prefix, cols) ==
    [i \in 1..Len(cols) |->
        [name |-> prefix \o "_" \o cols[i].attr, dtype |-> cols[i].dtype]]

\* f'{prefix}_{name}' for each name of a list, all of one dtype
PrefixedNames(prefix, names, dtype) ==
    [i \in 1..Len(names) |-> [name |-> prefix \o "_" \o names[i], dtype |-> dtype]]

\* f'{player}_{unit_id}_{col_suffix}'
sm_add_unit_columns(sch, player, unit_id) ==
    AddColumns(sch, Prefixed(player \o "_" \o unit_id, UNIT_COLUMNS))

\* f'{player}_{building_id}_{col_suffix}'
sm_add_building_columns(sch, player, building_id) ==
    AddColumns(sch, Prefixed(player \o "_" \o building_id, BUILDING_COLUMNS))

\* f'p{player_num}_{col_suffix}', player 1 then player 2
sm_add_economy_columns(sch) ==
    AddColumns(AddColumns(sch, PrefixedNames("p1", ECONOMY_COLUMNS, "int64")),
               PrefixedNames("p2", ECONOMY_COLUMNS, "int64"))

\* f'p{player_num}_upgrade_{upgrade}', player 1 then player 2
sm_add_upgrade_columns(sch) ==
    AddColumns(AddColumns(sch, PrefixedNames("p1_upgrade", COMMON_UPGRADES, "int64")),
               PrefixedNames("p2_upgrade", COMMON_UPGRADES, "int64"))

\* f'p{player_num}_{unit_type.lower()}_count' for both players
sm_add_unit_count_columns(sch, unit_type) ==
    AddColumns(sch, << [name |-> "p1_" \o unit_type \o "_count", dtype |-> "int64"],
                       [name |-> "p2_" \o unit_type \o "_count", dtype |-> "int64"] >>)

\* get_dtype: self.dtypes.get(column_name, 'object')
sm_get_dtype(dts, column_name) ==
    IF column_name \in DOMAIN dts THEN dts[column_name] ELSE "object"

\* get_missing_value: NaN for float* and int* columns, None otherwise
sm_get_missing_value(dts, column_name) ==
    IF sm_get_dtype(dts, column_name) \in {"float64", "int64"} THEN "NaN" ELSE "None"

(***************************************************************************)
(* Extracted states (StateExtractor.extract_observation): per player the   *)
(* units and buildings reported, the economy dict and the upgrades dict.   *)
(***************************************************************************)
\* UnitExtractor's record of a present unit and of a killed one
LiveUnitData(st) ==
    [tag |-> 1, unit_type_name |-> "Marine", x |-> 10, y |-> 20, z |-> 8,
     health |-> 45, health_max |-> 45, shields |-> 0, shields_max |-> 0,
     energy |-> 0, energy_max |-> 0, state |-> st]

KilledUnitData == [tag |-> 1, state |-> "killed"]

\* BuildingExtractor's record of a present building and of a destroyed one
LiveBuildingData(st, bp) ==
    [tag |-> 2, unit_type_name |-> "Barracks", x |-> 40, y |-> 40, z |-> 8,
     build_progress |-> bp, state |-> st, started_loop |-> "None",
     completed_loop |-> "None", destroyed_loop |-> "None"]

DestroyedBuildingData == [tag |-> 2, state |-> "destroyed", destroyed_loop |-> 1]

\* EconomyExtractor's dict (its keys are food_used, food_cap, ...)
EconomyData == [minerals |-> 50, vespene |-> 0, food_used |-> 12, food_cap |-> 15,
                idle_worker_count |-> 0]

\* UpgradeExtractor's dict: keyed by upgrade names and categories, never by
\* attack_level, armor_level or shield_level
UpgradesData == [stimpack |-> [upgrade_name |-> "Stimpack", level |-> 0, completed |-> TRUE]]

\* a message dict of extract_messages
Message(player, text) == [player_id |-> player, message |-> text]

\* a dict with the one key and value
Dict(key, value) == [k \in {key} |-> value]

\* the extracted states of the model: nothing on the map; a new marine and a
\* barracks under construction; the marine killed, the barracks destroyed and
\* an enemy marine; a marine on each side
ExtractedStates ==
    { [game_loop |-> 0,
       units |-> [p \in {"p1", "p2"} |-> EmptyFn],
       buildings |-> [p \in {"p1", "p2"} |-> EmptyFn],
       messages |-> <<>>],
      [game_loop |-> 1,
       units |-> [p \in {"p1", "p2"} |->
                    IF p = "p1" THEN Dict("marine_001", LiveUnitData("built"))
                    ELSE EmptyFn],
       buildings |-> [p \in {"p1", "p2"} |->
                        IF p = "p1"
                        THEN Dict("barracks_001", LiveBuildingData("building", 50))
                        ELSE EmptyFn],
       messages |-> <<Message(2, "gg")>>],
      [game_loop |-> 2,
       units |-> [p \in {"p1", "p2"} |->
                    IF p = "p1" THEN Dict("marine_001", KilledUnitData)
                    ELSE Dict("marine_002", LiveUnitData("existing"))],
       buildings |-> [p \in {"p1", "p2"} |->
                        IF p = "p1" THEN Dict("barracks_001", DestroyedBuildingData)
                        ELSE EmptyFn],
       messages |-> <<Message(1, "glhf"), Message(2, "gg")>>],
      [game_loop |-> 2,
       units |-> [p \in {"p1", "p2"} |-> Dict("marine_001", LiveUnitData("existing"))],
       buildings |-> [p \in {"p1", "p2"} |-> EmptyFn],
       messages |-> <<>>] }

(***************************************************************************)
(* SchemaManager operations.  row is the dict the last build_row call      *)
(* returned and row_call that call's schema columns and argument; both are *)
(* empty when the last operation was not build_row.                        *)
(***************************************************************************)
RowInit ==
    LET sch == sm_add_base_columns([columns |-> <<>>, dtypes |-> EmptyFn])
    IN  /\ columns = sch.columns
        /\ dtypes = sch.dtypes
        /\ seen_units = {}
        /\ seen_buildings = {}
        /\ row = EmptyFn
        /\ row_call = <<>>

\* the keys of a dict in the order a loop over it visits them
RECURSIVE Ordered(_)
Ordered(keys) ==
    IF keys = {} THEN <<>>
    ELSE LET k == CHOOSE x \in keys : TRUE IN <<k>> \o Ordered(keys \ {k})

\* add_unit_columns or add_building_columns for each id of a list
RECURSIVE sm_add_entity_columns(_, _, _, _)
sm_add_entity_columns(sch, player, ids, kind) ==
    IF ids = <<>> THEN sch
    ELSE sm_add_entity_columns(
             IF kind = "units" THEN sm_add_unit_columns(sch, player, Head(ids))
             ELSE sm_add_building_columns(sch, player, Head(ids)),
             player, Tail(ids), kind)

\* the unit loop of _discover_entities_from_state for both players:
\* _seen_units is keyed by unit_id alone
RECURSIVE sm_discover_units(_, _, _, _)
sm_discover_units(sch, seen, state, p) ==
    IF p > Len(Players) THEN [sch |-> sch, seen |-> seen]
    ELSE
      LET fresh == DOMAIN state.units[Players[p]] \ seen
          added == sm_add_entity_columns(sch, Players[p], Ordered(fresh), "units")
      IN  sm_discover_units(added, seen \cup fresh, state, p + 1)

RECURSIVE sm_discover_buildings(_, _, _, _)
sm_discover_buildings(sch, seen, state, p) ==
    IF p > Len(Players) THEN [sch |-> sch, seen |-> seen]
    ELSE
      LET fresh == DOMAIN state.buildings[Players[p]] \ seen
          added == sm_add_entity_columns(sch, Players[p], Ordered(fresh), "buildings")
      IN  sm_discover_buildings(added, seen \cup fresh, state, p + 1)

\* SchemaManager._discover_entities_from_state(state)
SMDiscover ==
    \E state \in ExtractedStates :
        LET u == sm_discover_units([columns |-> columns, dtypes |-> dtypes],
                                   seen_units, state, 1)
            b == sm_discover_buildings(u.sch, seen_buildings, state, 1)
            sch == sm_add_upgrade_columns(sm_add_economy_columns(b.sch))
        IN  /\ columns' = sch.columns
            /\ dtypes' = sch.dtypes
            /\ seen_units' = u.seen
            /\ seen_buildings' = b.seen
            /\ row' = EmptyFn
            /\ row_call' = <<>>
            /\ UNCHANGED <<ueVars, utVars, batchVars, beVars, valVars, pipeVars, scanVars, ownVars, lifeVars, sampleVars>>

\* SchemaManager.add_unit_count_columns(unit_type)
SMAddUnitCountColumns ==
    \E unit_type \in {"marine"} :
        LET sch == sm_add_unit_count_columns([columns |-> columns, dtypes |-> dtypes],
                                             unit_type)
        IN  /\ columns' = sch.columns
            /\ dtypes' = sch.dtypes
            /\ row' = EmptyFn
            /\ row_call' = <<>>
            /\ UNCHANGED <<seen_units, seen_buildings>>
            /\ UNCHANGED <<ueVars, utVars, batchVars, beVars, valVars, pipeVars, scanVars, ownVars, lifeVars, sampleVars>>

\* column lists a schema file (or a caller assigning schema.columns) holds
LoadableColumns ==
    { <<>>,
      << "col_0" >>,
      << "game_loop", "p1_minerals" >>,
      << "game_loop", "timestamp_seconds", "Messages" >> }

\* SchemaManager.load_schema(schema_path): columns and dtypes are replaced by
\* the file's; the _seen sets stay
SMLoadSchema ==
    \E cols \in LoadableColumns, dtype \in {"int64", "string"} :
        /\ columns' = cols
        /\ dtypes' = [c \in {cols[i] : i \in 1..Len(cols)} |-> dtype]
        /\ row' = EmptyFn
        /\ row_call' = <<>>
        /\ UNCHANGED <<seen_units, seen_buildings>>
        /\ UNCHANGED <<ueVars, utVars, batchVars, beVars, valVars, pipeVars, scanVars, ownVars, lifeVars, sampleVars>>

\* SchemaManager.reset()
SMReset ==
    LET sch == sm_add_base_columns([columns |-> <<>>, dtypes |-> EmptyFn])
    IN  /\ columns' = sch.columns
        /\ dtypes' = sch.dtypes
        /\ seen_units' = {}
        /\ seen_buildings' = {}
        /\ row' = EmptyFn
        /\ row_call' = <<>>
        /\ UNCHANGED <<ueVars, utVars, batchVars, beVars, valVars, pipeVars, scanVars, ownVars, lifeVars, sampleVars>>

(***************************************************************************)
(* WideTableBuilder                                                        *)
(***************************************************************************)
\* row[key] = value
Put(r, key, value) ==
    [c \in DOMAIN r \cup {key} |-> IF c = key THEN value ELSE r[c]]

\* if col_name in row: row[col_name] = value
PutIfPresent(r, key, value) ==
    IF key \in DOMAIN r THEN [r EXCEPT ![key] = value] ELSE r

\* data.get(attr, default)
Get(data, attr, default) == IF attr \in DOMAIN data THEN data[attr] ELSE default

\* for attr in <attrs>: col_name = f'{prefix}_{attr}';
\*     if col_name in row: row[col_name] = data.get(attr, missing value)
wtb_put_attrs(r, dts, prefix, data, attrs) ==
    [c \in DOMAIN r |->
        IF \E i \in 1..Len(attrs) : c = prefix \o "_" \o attrs[i]
        THEN Get(data, attrs[CHOOSE i \in 1..Len(attrs) : c = prefix \o "_" \o attrs[i]],
                 sm_get_missing_value(dts, c))
        ELSE r[c]]

\* the attribute names of a column list
Attrs(cols) == [i \in 1..Len(cols) |-> cols[i].attr]

\* add_unit_to_row without the "if unit_state == 'killed'" branch
wtb_add_unit_to_row_no_killed_branch(r, dts, player, unit_id, unit_data) ==
    wtb_put_attrs(r, dts, player \o "_" \o unit_id, unit_data, Attrs(UNIT_COLUMNS))

\* add_unit_to_row
wtb_add_unit_to_row(r, dts, player, unit_id, unit_data) ==
    IF Get(unit_data, "state", "None") = "killed"
    THEN PutIfPresent(r, player \o "_" \o unit_id \o "_state", "killed")
    ELSE wtb_put_attrs(r, dts, player \o "_" \o unit_id, unit_data, Attrs(UNIT_COLUMNS))

\* add_building_to_row
wtb_add_building_to_row(r, dts, player, building_id, building_data) ==
    wtb_put_attrs(r, dts, player \o "_" \o building_id, building_data,
                  Attrs(BUILDING_COLUMNS))

\* add_economy_to_row
wtb_add_economy_to_row(r, dts, player, economy_data) ==
    wtb_put_attrs(r, dts, player, economy_data, ECONOMY_COLUMNS)

\* add_upgrades_to_row: row[col_name] = upgrades_data.get(upgrade_name, 0)
wtb_add_upgrades_to_row(r, player, upgrades_data) ==
    [c \in DOMAIN r |->
        IF \E i \in 1..Len(COMMON_UPGRADES) : c = player \o "_upgrade_" \o COMMON_UPGRADES[i]
        THEN Get(upgrades_data,
                 COMMON_UPGRADES[CHOOSE i \in 1..Len(COMMON_UPGRADES) :
                                    c = player \o "_upgrade_" \o COMMON_UPGRADES[i]], 0)
        ELSE r[c]]

\* calculate_unit_counts and add_unit_counts_to_row for the one unit type
\* (Marine) of the model's states
wtb_add_unit_counts_to_row(r, player, units) ==
    LET counted == {u \in DOMAIN units :
                      /\ Get(units[u], "state", "None") # "killed"
                      /\ "unit_type_name" \in DOMAIN units[u]}
    IN  IF counted = {} THEN r
        ELSE PutIfPresent(r, player \o "_marine_count", Cardinality(counted))

\* _format_messages: NaN, the one text, or the list of texts
wtb_format_messages(messages) ==
    LET message_texts == [i \in 1..Len(messages) |-> Get(messages[i], "message", "")]
    IN  IF Len(messages) = 0 THEN "NaN"
        ELSE IF Len(message_texts) = 1 THEN message_texts[1]
        ELSE message_texts

\* "for unit_id, unit_data in units.items()" and the same loop for buildings
RECURSIVE wtb_add_entities(_, _, _, _, _, _)
wtb_add_entities(r, dts, player, dict, ids, kind) ==
    IF ids = <<>> THEN r
    ELSE wtb_add_entities(
             IF kind = "units"
             THEN wtb_add_unit_to_row(r, dts, player, Head(ids), dict[Head(ids)])
             ELSE wtb_add_building_to_row(r, dts, player, Head(ids), dict[Head(ids)]),
             dts, player, dict, Tail(ids), kind)

RECURSIVE wtb_fold_players(_, _, _, _, _)
\* one "for player_num in [1, 2]" loop of build_row; kind names the loop
wtb_fold_players(r, dts, state, kind, p) ==
    IF p > Len(Players) THEN r
    ELSE
      LET player == Players[p]
          units == state.units[player]
          buildings == state.buildings[player]
          next ==
            CASE kind = "units" ->
                   wtb_add_entities(r, dts, player, units, Ordered(DOMAIN units), kind)
              [] kind = "buildings" ->
                   wtb_add_entities(r, dts, player, buildings,
                                    Ordered(DOMAIN buildings), kind)
              [] kind = "economy" -> wtb_add_economy_to_row(r, dts, player, EconomyData)
              [] kind = "upgrades" -> wtb_add_upgrades_to_row(r, player, UpgradesData)
              [] OTHER -> wtb_add_unit_counts_to_row(r, player, units)
      IN  wtb_fold_players(next, dts, state, kind, p + 1)

\* the timestamp game_loop / 22.4, kept as the exact fraction
Timestamp(game_loop) == <<game_loop * 10, 224>>

\* WideTableBuilder.build_row(extracted_state)
wtb_build_row(cols, dts, state) ==
    LET r0 == [c \in {cols[i] : i \in 1..Len(cols)} |-> sm_get_missing_value(dts, c)]
        r1 == Put(Put(r0, "game_loop", state.game_loop),
                  "timestamp_seconds", Timestamp(state.game_loop))
        r2 == wtb_fold_players(r1, dts, state, "units", 1)
        r3 == wtb_fold_players(r2, dts, state, "buildings", 1)
        r4 == wtb_fold_players(r3, dts, state, "economy", 1)
        r5 == wtb_fold_players(r4, dts, state, "upgrades", 1)
        r6 == wtb_fold_players(r5, dts, state, "counts", 1)
    IN  PutIfPresent(r6, "Messages", wtb_format_messages(state.messages))

WTBBuildRow ==
    \E state \in ExtractedStates :
        /\ row' = wtb_build_row(columns, dtypes, state)
        /\ row_call' = <<[columns |-> columns, state |-> state]>>
        /\ UNCHANGED <<columns, dtypes, seen_units, seen_buildings>>
        /\ UNCHANGED <<ueVars, utVars, batchVars, beVars, valVars, pipeVars, scanVars, ownVars, lifeVars, sampleVars>>

RowNext == SMDiscover \/ SMAddUnitCountColumns \/ SMLoadSchema \/ SMReset \/ WTBBuildRow

(***************************************************************************)
(* Claims about build_row (SpecRow)                                        *)
(***************************************************************************)

\* C4: the row build_row returns has exactly the columns the schema had at
\* the call as its keys, for any extracted state and any schema contents.
C4_RowKeysEqualSchema ==
    Len(row_call) = 1 =>
        DOMAIN row = {row_call[1].columns[i] : i \in 1..Len(row_call[1].columns)}

\* C20: a registration call (entity discovery with add_unit_columns and
\* add_building_columns, add_unit_count_columns) leaves the columns it found
\* in the same order with the same declared type, creates no duplicate
\* column, and changes nothing when it has no new column to register.
C20_RegistrationAppendOnly ==
    [][(SMDiscover \/ SMAddUnitCountColumns) =>
          /\ Len(columns') >= Len(columns)
          /\ SubSeq(columns', 1, Len(columns)) = columns
          /\ \A c \in Names(columns) : dtypes'[c] = dtypes[c]
          /\ \A i, j \in 1..Len(columns') : columns'[i] = columns'[j] => i = j
          /\ Names(columns') = Names(columns) => columns' = columns /\ dtypes' = dtypes
      ]_vars

\* entities and count columns have been registered after the base columns
C20_Witness ==
    /\ Len(columns) > Len(BASE_COLUMNS)
    /\ SubSeq(columns, 1, Len(BASE_COLUMNS)) = [i \in 1..Len(BASE_COLUMNS) |-> BASE_COLUMNS[i].name]
    /\ seen_units # {}
    /\ seen_buildings # {}
    /\ "p1_marine_count" \in Names(columns)
    /\ "p1_supply_used" \in Names(columns)

\* the columns add_unit_count_columns registers for the unit type Marine
UnitCountColumns == {Players[p] \o "_marine_count" : p \in 1..Len(Players)}

\* C23: the missing value of a column is 0 for a unit count column, the
\* not-a-number marker for any other numeric column and the null marker for
\* a string column.
C23_SentinelByColumnKind ==
    \A i \in 1..Len(columns) :
        LET c == columns[i]
            sentinel == ToString(sm_get_missing_value(dtypes, c))
        IN  IF c \in UnitCountColumns THEN sentinel = ToString(0)
            ELSE IF sm_get_dtype(dtypes, c) \in {"float64", "int64"}
                 THEN sentinel = ToString("NaN")
                 ELSE sentinel = ToString("None")

\* the killed units and the destroyed and present buildings of the state the
\* last build_row call was given, as <<player, id>> pairs
KilledUnits ==
    IF Len(row_call) = 0 THEN {}
    ELSE {pu \in {"p1", "p2"} \X {"marine_001", "marine_002"} :
            /\ pu[2] \in DOMAIN row_call[1].state.units[pu[1]]
            /\ Get(row_call[1].state.units[pu[1]][pu[2]], "state", "None") = "killed"}

DestroyedBuildings ==
    IF Len(row_call) = 0 THEN {}
    ELSE {pb \in {"p1", "p2"} \X {"barracks_001"} :
            /\ pb[2] \in DOMAIN row_call[1].state.buildings[pb[1]]
            /\ Get(row_call[1].state.buildings[pb[1]][pb[2]], "state", "None")
                   = "destroyed"}

PresentBuildings ==
    IF Len(row_call) = 0 THEN {}
    ELSE {pb \in {"p1", "p2"} \X {"barracks_001"} :
            /\ pb[2] \in DOMAIN row_call[1].state.buildings[pb[1]]
            /\ Get(row_call[1].state.buildings[pb[1]][pb[2]], "state", "None")
                   # "destroyed"}

\* the columns of the row that belong to an entity and one of its attributes
EntityColumn(pe, attr) == pe[1] \o "_" \o pe[2] \o "_" \o attr

\* C24: add_unit_to_row of a killed unit changes no column of the row but
\* that unit's state column, whatever the row held before; in the row
\* build_row returns for a frame with a killed unit, the unit's state column
\* is "killed" and its other attribute columns are at their missing value.
C24_KilledUnitWritesStateOnly ==
    /\ \A pu \in {"p1", "p2"} \X {"marine_001", "marine_002"} :
          LET after == wtb_add_unit_to_row(row, dtypes, pu[1], pu[2], KilledUnitData)
          IN  /\ DOMAIN after = DOMAIN row
              /\ \A c \in DOMAIN row :
                    IF c = EntityColumn(pu, "state")
                    THEN ToString(after[c]) = ToString("killed")
                    ELSE ToString(after[c]) = ToString(row[c])
    /\ \A pu \in KilledUnits :
          \A i \in 1..Len(UNIT_COLUMNS) :
            LET c == EntityColumn(pu, UNIT_COLUMNS[i].attr)
            IN  c \in DOMAIN row =>
                  ToString(row[c]) =
                    IF UNIT_COLUMNS[i].attr = "state" THEN ToString("killed")
                    ELSE ToString(sm_get_missing_value(dtypes, c))

\* a row built for a frame that reports a registered unit killed; the row
\* also holds the live values of another registered unit
C24_Witness ==
    /\ <<"p1", "marine_001">> \in KilledUnits
    /\ {"p1_marine_001_state", "p1_marine_001_x", "p2_marine_002_health"}
          \subseteq DOMAIN row
    /\ row["p1_marine_001_state"] = "killed"
    /\ ToString(row["p2_marine_002_health"]) = ToString(45)

\* C25: in the row built for a frame that reports a building destroyed, the
\* building's status column holds "destroyed" and its other attribute
\* columns are at their missing value.
C25_DestroyedBuildingStatusOnly ==
    \A pb \in DestroyedBuildings :
        \A i \in 1..Len(BUILDING_COLUMNS) :
          LET c == EntityColumn(pb, BUILDING_COLUMNS[i].attr)
          IN  c \in DOMAIN row =>
                ToString(row[c]) =
                  IF BUILDING_COLUMNS[i].attr = "status" THEN ToString("destroyed")
                  ELSE ToString(sm_get_missing_value(dtypes, c))

\* C26: in the row built for a frame, the status and progress columns of
\* every building present in the frame hold the state and the build progress
\* the extractor reported for it.
C26_PresentBuildingOverlaid ==
    \A pb \in PresentBuildings :
        LET data == row_call[1].state.buildings[pb[1]][pb[2]]
        IN  /\ EntityColumn(pb, "status") \in DOMAIN row =>
                  ToString(row[EntityColumn(pb, "status")]) = ToString(data.state)
            /\ EntityColumn(pb, "progress") \in DOMAIN row =>
                  ToString(row[EntityColumn(pb, "progress")])
                     = ToString(data.build_progress)

(***************************************************************************)
(* ParallelReplayProcessor.process_replay_batch with its worker function   *)
(* _worker_process_replay and ReplayExtractionPipeline.process_replay.     *)
(*                                                                         *)
(* A job is the position of its replay in replay_paths.  The executor      *)
(* starts pending jobs in submission order on at most num_workers worker   *)
(* processes; as_completed hands finished futures to the loop in any       *)
(* order in which they can finish.                                         *)
(***************************************************************************)
MaxReplays == 3
num_workers == 2

\* the replay files of a batch, in input order
ReplayFiles == [i \in 1..MaxReplays |-> <<"replay", i>>]

\* str(e) of the exceptions a replay can raise: an exception built without
\* arguments has the empty string
ExceptionTexts == {"", "replay is corrupt"}

Jobs == 1..Len(replay_paths)

BatchInit ==
    /\ pc = "idle"
    /\ replay_paths = <<>>
    /\ future_state = <<>>
    /\ future_result = <<>>
    /\ yielded = {}
    /\ results = [successful |-> <<>>, failed |-> <<>>, processing_times |-> {},
                  total_replays |-> 0, successful_count |-> 0, failed_count |-> 0]
    /\ ran = {}
    /\ crashed = {}

\* process_replay_batch up to the as_completed loop: the results dict and one
\* submitted future per replay
BatchSubmit ==
    /\ pc \in {"idle", "returned"}
    /\ \E n \in 1..MaxReplays :
        /\ replay_paths' = SubSeq(ReplayFiles, 1, n)
        /\ future_state' = [i \in 1..n |-> "pending"]
        /\ future_result' = [i \in 1..n |-> [kind |-> "none"]]
        /\ results' = [successful |-> <<>>, failed |-> <<>>, processing_times |-> {},
                       total_replays |-> n, successful_count |-> 0, failed_count |-> 0]
    /\ yielded' = {}
    /\ ran' = {}
    /\ crashed' = {}
    /\ pc' = "collecting"
    /\ UNCHANGED <<ueVars, utVars, rowVars, beVars, valVars, pipeVars, scanVars, ownVars, lifeVars, sampleVars>>

\* a free worker process takes the oldest pending job
WorkerStart ==
    /\ pc = "collecting"
    /\ Cardinality({i \in Jobs : future_state[i] = "running"}) < num_workers
    /\ \E j \in Jobs :
        /\ future_state[j] = "pending"
        /\ \A i \in Jobs : i < j => future_state[i] # "pending"
        /\ future_state' = [future_state EXCEPT ![j] = "running"]
    /\ UNCHANGED <<pc, replay_paths, future_result, yielded, results, ran, crashed>>
    /\ UNCHANGED <<ueVars, utVars, rowVars, beVars, valVars, pipeVars, scanVars, ownVars, lifeVars, sampleVars>>

\* ReplayExtractionPipeline.process_replay: the result dict of a replay that
\* is processed (raised = FALSE) or raises the exception with text str_e
process_replay(raised, str_e) ==
    IF raised
    THEN [success |-> FALSE, error |-> str_e]
    ELSE [success |-> TRUE, error |-> "None"]

\* result.get('error', 'Unknown error')
result_get_error(result) ==
    IF "error" \in DOMAIN result THEN result.error ELSE "Unknown error"

\* _worker_process_replay: the tuple (success, error) it returns.  where says
\* what raised: nothing, process_replay's own try block ("inside"), or the
\* code outside it (the pipeline constructor, output_dir.mkdir: "outside")
worker_process_replay(where, type_name, str_e) ==
    IF where = "outside"
    THEN [kind |-> "returned", success |-> FALSE,
          error |-> type_name \o ": " \o str_e]
    ELSE LET result == process_replay(where = "inside", str_e)
         IN  IF result.success
             THEN [kind |-> "returned", success |-> TRUE, error |-> "None"]
             ELSE [kind |-> "returned", success |-> FALSE,
                   error |-> result_get_error(result)]

\* a worker process finishes _worker_process_replay for its job
WorkerReturn ==
    /\ pc = "collecting"
    /\ \E j \in Jobs, where \in {"nothing", "inside", "outside"},
          str_e \in ExceptionTexts :
        /\ future_state[j] = "running"
        /\ where = "nothing" => str_e = ""
        /\ future_state' = [future_state EXCEPT ![j] = "finished"]
        /\ future_result' =
             [future_result EXCEPT ![j] = worker_process_replay(where, "OSError", str_e)]
        /\ ran' = ran \cup {j}
    /\ UNCHANGED <<pc, replay_paths, yielded, results, crashed>>
    /\ UNCHANGED <<ueVars, utVars, rowVars, beVars, valVars, pipeVars, scanVars, ownVars, lifeVars, sampleVars>>

\* str(BrokenProcessPool) as concurrent.futures raises it
BrokenProcessPoolText ==
    "A process in the process pool was terminated abruptly while the future was running or pending."

\* the worker process of a running job dies: the executor marks the pool
\* broken and every future that has not finished raises BrokenProcessPool
WorkerCrash ==
    /\ pc = "collecting"
    /\ \E j \in Jobs :
        /\ future_state[j] = "running"
        /\ crashed' = crashed \cup {j}
    /\ future_state' = [i \in Jobs |-> "finished"]
    /\ future_result' =
         [i \in Jobs |->
            IF future_state[i] = "finished" THEN future_result[i]
            ELSE [kind |-> "raised", text |-> BrokenProcessPoolText]]
    /\ UNCHANGED <<pc, replay_paths, yielded, results, ran>>
    /\ UNCHANGED <<ueVars, utVars, rowVars, beVars, valVars, pipeVars, scanVars, ownVars, lifeVars, sampleVars>>

\* the loop body with an except branch that only logs the crashed worker
collect_crash_only_logged(res, replay_path, outcome) ==
    IF outcome.kind = "raised"
    THEN res
    ELSE LET timed == [res EXCEPT !.processing_times = @ \cup {replay_path}]
         IN  IF outcome.success
             THEN [timed EXCEPT !.successful = Append(@, replay_path),
                                !.successful_count = @ + 1]
             ELSE [timed EXCEPT !.failed = Append(@, <<replay_path, outcome.error>>),
                                !.failed_count = @ + 1]

\* the body of "for future in as_completed(future_to_replay)" for one future
collect(res, replay_path, outcome) ==
    IF outcome.kind = "raised"
    THEN [res EXCEPT !.failed = Append(@, <<replay_path, "Worker crashed: " \o outcome.text>>),
                     !.failed_count = @ + 1]
    ELSE LET timed == [res EXCEPT !.processing_times = @ \cup {replay_path}]
         IN  IF outcome.success
             THEN [timed EXCEPT !.successful = Append(@, replay_path),
                                !.successful_count = @ + 1]
             ELSE [timed EXCEPT !.failed = Append(@, <<replay_path, outcome.error>>),
                                !.failed_count = @ + 1]

\* as_completed yields a finished future and the loop body handles it
Collect ==
    /\ pc = "collecting"
    /\ \E j \in Jobs \ yielded :
        /\ future_state[j] = "finished"
        /\ yielded' = yielded \cup {j}
        /\ results' = collect(results, replay_paths[j], future_result[j])
    /\ UNCHANGED <<pc, replay_paths, future_state, future_result, ran, crashed>>
    /\ UNCHANGED <<ueVars, utVars, rowVars, beVars, valVars, pipeVars, scanVars, ownVars, lifeVars, sampleVars>>

\* as_completed is exhausted, the with block ends and results is returned
BatchReturn ==
    /\ pc = "collecting"
    /\ yielded = Jobs
    /\ pc' = "returned"
    /\ UNCHANGED <<replay_paths, future_state, future_result, yielded, results, ran,
                   crashed>>
    /\ UNCHANGED <<ueVars, utVars, rowVars, beVars, valVars, pipeVars, scanVars, ownVars, lifeVars, sampleVars>>

\* retry_failed_replays handing the whole input list of the last batch to
\* process_replay_batch
retry_paths_whole_batch(failed_results) == replay_paths

\* retry_failed_replays: retry_paths = [path for path, error in failed_results]
retry_paths(failed_results) ==
    [k \in 1..Len(failed_results) |-> failed_results[k][1]]

\* retry_failed_replays(results['failed'], output_dir) after a batch returned:
\* process_replay_batch(retry_paths, output_dir) up to the as_completed loop
BatchRetry ==
    /\ pc = "returned"
    /\ LET paths == retry_paths(results.failed)
       IN  /\ replay_paths' = paths
           /\ future_state' = [i \in 1..Len(paths) |-> "pending"]
           /\ future_result' = [i \in 1..Len(paths) |-> [kind |-> "none"]]
           /\ results' = [successful |-> <<>>, failed |-> <<>>, processing_times |-> {},
                          total_replays |-> Len(paths), successful_count |-> 0,
                          failed_count |-> 0]
    /\ yielded' = {}
    /\ ran' = {}
    /\ crashed' = {}
    /\ pc' = "collecting"
    /\ UNCHANGED <<ueVars, utVars, rowVars, beVars, valVars, pipeVars, scanVars, ownVars, lifeVars, sampleVars>>

BatchNext ==
    \/ BatchSubmit
    \/ WorkerStart
    \/ WorkerReturn
    \/ WorkerCrash
    \/ Collect
    \/ BatchReturn
    \/ BatchRetry

\* the position of a replay in the input list
Position(replay_path) == CHOOSE i \in Jobs : replay_paths[i] = replay_path

\* the replays of the failed list
FailedPaths == [k \in 1..Len(results.failed) |-> results.failed[k][1]]

InSubmissionOrder(paths) ==
    \A a, b \in 1..Len(paths) : a < b => Position(paths[a]) < Position(paths[b])

(***************************************************************************)
(* Claims about process_replay_batch (SpecBatch)                           *)
(***************************************************************************)

\* C5: whatever order the workers finish in, the successful and the failed
\* list of the returned results are ordered by the position of each replay
\* in the input list.
C5_ListsInSubmissionOrder ==
    pc = "returned" =>
        /\ InSubmissionOrder(results.successful)
        /\ InSubmissionOrder(FailedPaths)

\* C6: in the returned results every failed entry has a non-empty error
\* message, every job of the batch is reported, and every job whose own
\* worker did not crash ran to completion.
C6_FailuresReportedOthersComplete ==
    pc = "returned" =>
        /\ \A k \in 1..Len(results.failed) : results.failed[k][2] # ""
        /\ \A j \in Jobs :
             \/ \E k \in 1..Len(results.successful) : results.successful[k] = replay_paths[j]
             \/ \E k \in 1..Len(FailedPaths) : FailedPaths[k] = replay_paths[j]
        /\ \A j \in Jobs \ crashed : j \in ran

\* C37: in the returned results every submitted replay is listed exactly once,
\* in the successful or in the failed list; successful_count and failed_count
\* are the lengths of their lists and add up to total_replays.
C37_EveryReplayInExactlyOneList ==
    pc = "returned" =>
        /\ \A j \in Jobs :
              Cardinality({k \in 1..Len(results.successful) :
                              results.successful[k] = replay_paths[j]})
                + Cardinality({k \in 1..Len(FailedPaths) :
                                  FailedPaths[k] = replay_paths[j]}) = 1
        /\ results.successful_count = Len(results.successful)
        /\ results.failed_count = Len(results.failed)
        /\ results.successful_count + results.failed_count = results.total_replays
        /\ results.total_replays = Len(replay_paths)

\* a returned batch of three with a successful replay, a replay that failed
\* and a replay whose worker crashed
C37_Witness ==
    /\ pc = "returned"
    /\ Len(replay_paths) = 3
    /\ results.successful_count >= 1
    /\ results.failed_count >= 2
    /\ crashed # {}
    /\ ran # {}
    /\ \E k \in 1..Len(results.failed) :
          results.failed[k][2] = "Worker crashed: " \o BrokenProcessPoolText
    /\ \E k \in 1..Len(results.failed) : results.failed[k][2] = "replay is corrupt"

\* C28: retry_failed_replays submits one job for each entry of the failed
\* list it is given, for that entry's path, and no other job.
C28_RetrySubmitsExactlyFailed ==
    [][BatchRetry =>
          /\ Len(replay_paths') = Len(results.failed)
          /\ \A k \in 1..Len(results.failed) : replay_paths'[k] = results.failed[k][1]
          /\ DOMAIN future_state' = 1..Len(results.failed)
          /\ \A i \in DOMAIN future_state' : future_state'[i] = "pending"
          /\ results'.total_replays = Len(results.failed)
      ]_vars

\* a retry batch just submitted for the two failed replays of a batch of
\* three, in the order the failed list had them
C28_Witness ==
    /\ pc = "collecting"
    /\ replay_paths = <<ReplayFiles[3], ReplayFiles[1]>>
    /\ future_state = <<"pending", "pending">>
    /\ results.total_replays = 2

(***************************************************************************)
(* BuildingExtractor                                                       *)
(*                                                                         *)
(* build_progress is in percent (1.0 is 100); None is <<>> and a game loop *)
(* n that was recorded is <<n>>.                                           *)
(***************************************************************************)
\* game loops between two observations
LoopStep == 50

\* what a tag can be in a frame: tag 1 is an own building (type 21) at one of
\* three build progresses; every other tag is a complete own building, an own
\* unit that is no building, or a building of the other player
BuildingKinds(tag) ==
    IF tag = 1
    THEN {Snapshot(1, 21, 0), Snapshot(1, 21, 40), Snapshot(1, 21, 100)}
    ELSE {Snapshot(1, 21, 100), Snapshot(1, 51, 100), Snapshot(2, 21, 100)}

BuildingFrames ==
    UNION {{f \in [present -> UNION {BuildingKinds(t) : t \in present}] :
              \A t \in present : f[t] \in BuildingKinds(t)} : present \in SUBSET Tags}

\* the dead_units events of a frame
DeadEvents == SUBSET {1}

BEInit ==
    /\ be_tag_to_readable_id = EmptyFn
    /\ building_type_counters = EmptyFn
    /\ be_previous_tags = {}
    /\ be_all_seen_tags = {}
    /\ completion_timestamps = EmptyFn
    /\ destruction_timestamps = EmptyFn
    /\ previous_build_progress = EmptyFn
    /\ buildings_data = EmptyFn
    /\ be_frames = 0
    /\ be_log = EmptyFn

\* dict.get(key, None)
GetOrNone(dict, key) == IF key \in DOMAIN dict THEN <<dict[key]>> ELSE <<>>

\* d[key] = value
Set(d, key, value) == [k \in DOMAIN d \cup {key} |-> IF k = key THEN value ELSE d[k]]

\* _determine_state with 'building' also for build_progress 0
be_determine_state_no_started(unit) ==
    IF unit.build_progress < 100 THEN "building" ELSE "completed"

\* BuildingExtractor._determine_state
be_determine_state(unit) ==
    IF unit.build_progress = 0 THEN "started"
    ELSE IF 0 < unit.build_progress /\ unit.build_progress < 100 THEN "building"
    ELSE IF unit.build_progress >= 100 THEN "completed"
    ELSE "building"

\* "Check for construction completion" writing the timestamp on every
\* observation of a complete building
be_record_completion_every_frame(completion, progress, tag, unit, game_loop) ==
    IF unit.build_progress >= 100 THEN Set(completion, tag, game_loop) ELSE completion

\* "Check for construction completion": completion_timestamps after it
be_record_completion(completion, progress, tag, unit, game_loop) ==
    IF tag \notin DOMAIN completion /\ unit.build_progress >= 100
    THEN LET prev_progress == IF tag \in DOMAIN progress THEN progress[tag] ELSE 0
         IN  IF prev_progress < 100 THEN Set(completion, tag, game_loop) ELSE completion
    ELSE completion

\* the loop over raw_data.units of extract(); st carries tag_to_readable_id,
\* building_type_counters, all_seen_tags, current_tags, completion_timestamps,
\* previous_build_progress and buildings_data
RECURSIVE be_process_units(_, _, _, _, _)
be_process_units(units, i, game_loop, destruction, st) ==
    IF i > Len(units) THEN st
    ELSE
      LET unit == units[i] IN
      IF unit.owner # player_id THEN be_process_units(units, i + 1, game_loop, destruction, st)
      ELSE IF ~be_is_building(unit.unit_type)
           THEN be_process_units(units, i + 1, game_loop, destruction, st)
      ELSE
        LET tag == unit.tag
            minted == ue_assign_readable_id(st.counters, unit.unit_type)
            isNew == tag \notin DOMAIN st.ids
            ids == IF isNew THEN st.ids @@ (tag :> minted.id) ELSE st.ids
            completion == be_record_completion(st.completion, st.progress, tag, unit,
                                               game_loop)
            building_data == [tag |-> tag,
                              unit_type_id |-> unit.unit_type,
                              build_progress |-> unit.build_progress,
                              state |-> be_determine_state(unit),
                              started_loop |-> <<>>,
                              completed_loop |-> GetOrNone(completion, tag),
                              destroyed_loop |-> GetOrNone(destruction, tag)]
        IN  be_process_units(units, i + 1, game_loop, destruction,
              [ids        |-> ids,
               counters   |-> IF isNew THEN minted.counters ELSE st.counters,
               seen       |-> st.seen \cup {tag},
               current    |-> st.current \cup {tag},
               completion |-> completion,
               progress   |-> Set(st.progress, tag, unit.build_progress),
               data       |-> Set(st.data, ids[tag], building_data)])

DestroyedRecord(tag, game_loop) ==
    [tag |-> tag, state |-> "destroyed", destroyed_loop |-> <<game_loop>>]

\* BuildingExtractor.extract(obs)
BEExtract(units, dead_units, game_loop) ==
    LET st == be_process_units(units, 1, game_loop, destruction_timestamps,
                [ids |-> be_tag_to_readable_id, counters |-> building_type_counters,
                 seen |-> be_all_seen_tags, current |-> {},
                 completion |-> completion_timestamps,
                 progress |-> previous_build_progress, data |-> EmptyFn])
        \* "Detect destroyed buildings (in previous frame but not current)"
        destroyed == {t \in be_previous_tags \ st.current : t \in DOMAIN st.ids}
        \* "Also check explicit dead units from event"
        dead == {t \in dead_units : t \in DOMAIN st.ids /\ t \in st.seen}
        withDestroyed ==
            [x \in DOMAIN st.data \cup {st.ids[t] : t \in destroyed} |->
                IF \E t \in destroyed : st.ids[t] = x
                THEN DestroyedRecord(CHOOSE t \in destroyed : st.ids[t] = x, game_loop)
                ELSE st.data[x]]
        added == {t \in dead : st.ids[t] \notin DOMAIN withDestroyed}
        withEvent ==
            [x \in DOMAIN withDestroyed \cup {st.ids[t] : t \in added} |->
                IF x \in DOMAIN withDestroyed THEN withDestroyed[x]
                ELSE DestroyedRecord(CHOOSE t \in added : st.ids[t] = x, game_loop)]
    IN  /\ be_tag_to_readable_id' = st.ids
        /\ building_type_counters' = st.counters
        /\ be_all_seen_tags' = st.seen
        /\ completion_timestamps' = st.completion
        /\ previous_build_progress' = st.progress
        /\ destruction_timestamps' =
             [t \in DOMAIN destruction_timestamps \cup destroyed \cup dead |->
                IF t \in DOMAIN destruction_timestamps THEN destruction_timestamps[t]
                ELSE game_loop]
        /\ buildings_data' = withEvent
        /\ be_previous_tags' = st.current
        /\ be_frames' = be_frames + 1
        /\ be_log' = [x \in DOMAIN be_log \cup DOMAIN withEvent |->
              LET before == IF x \in DOMAIN be_log THEN be_log[x] ELSE <<>>
              IN  IF x \in DOMAIN withEvent
                  THEN Append(before, [game_loop |-> game_loop, record |-> withEvent[x]])
                  ELSE before]

\* one observation, LoopStep game loops after the one before
BEFrame ==
    \E f \in BuildingFrames, dead_units \in DeadEvents :
        /\ be_frames < MaxFrames
        /\ BEExtract(RawUnits(f, FALSE), dead_units, be_frames * LoopStep)
        /\ UNCHANGED <<ueVars, utVars, rowVars, batchVars, valVars, pipeVars, scanVars, ownVars, lifeVars, sampleVars>>

\* BuildingExtractor.reset(): a new job
BEReset ==
    /\ be_tag_to_readable_id' = EmptyFn
    /\ building_type_counters' = EmptyFn
    /\ be_previous_tags' = {}
    /\ be_all_seen_tags' = {}
    /\ completion_timestamps' = EmptyFn
    /\ destruction_timestamps' = EmptyFn
    /\ previous_build_progress' = EmptyFn
    /\ buildings_data' = EmptyFn
    /\ be_frames' = 0
    /\ be_log' = EmptyFn
    /\ UNCHANGED <<ueVars, utVars, rowVars, batchVars, valVars, pipeVars, scanVars, ownVars, lifeVars, sampleVars>>

BENext == BEFrame \/ BEReset

\* ids the last extract() reported with a state other than 'destroyed'
BELiveIds == {x \in DOMAIN buildings_data : buildings_data[x].state # "destroyed"}

\* C13: for each building id the completed_loop is recorded once, at the first
\* frame whose build_progress reaches 1: every record of a live building
\* reports None before that frame and that frame's game loop from then on.
C13_CompletedLoopRecordedOnce ==
    \A x \in DOMAIN be_log : \A i \in 1..Len(be_log[x]) :
        LET log == be_log[x]
            complete == {j \in 1..i : /\ log[j].record.state # "destroyed"
                                      /\ log[j].record.build_progress >= 100}
        IN  log[i].record.state # "destroyed" =>
              log[i].record.completed_loop =
                 IF complete = {} THEN <<>>
                 ELSE <<log[CHOOSE j \in complete : \A k \in complete : j <= k].game_loop>>

\* a building that was complete in one frame is reported again in a later
\* frame, with the completed_loop of the earlier frame
C13_Witness ==
    \E x \in DOMAIN be_log : \E i, j \in 1..Len(be_log[x]) :
        /\ i < j
        /\ be_log[x][i].record.state = "building"
        /\ be_log[x][j].record.state = "completed"
        /\ be_log[x][j].record.completed_loop = <<be_log[x][j].game_loop>>
        /\ x \in BELiveIds
        /\ buildings_data[x].completed_loop = <<be_log[x][j].game_loop>>
        /\ be_frames * LoopStep > be_log[x][j].game_loop + LoopStep

\* C14: for each building id the destroyed_loop is recorded once, at the first
\* frame that reports it destroyed, is never overwritten, and every
\* destroyed_loop emitted for the id equals the recorded one.
C14_DestroyedLoopRecordedOnce ==
    \A x \in DOMAIN be_log : \A i \in 1..Len(be_log[x]) :
        LET log == be_log[x]
            destroyed == {j \in 1..i : log[j].record.state = "destroyed"}
            first == log[CHOOSE j \in destroyed : \A k \in destroyed : j <= k].game_loop
        IN  /\ destroyed = {} => log[i].record.destroyed_loop = <<>>
            /\ destroyed # {} =>
                 /\ log[i].record.destroyed_loop = <<first>>
                 /\ destruction_timestamps[log[i].record.tag] = first

\* C15: each observation of a building is 'started' at build_progress 0,
\* 'building' between 0 and 1 and 'completed' at 1; build_progress 0.0, 0.4,
\* 1.0 at game loops 0, 50, 100 gives started, building, completed with
\* completed_loop 100.
C15_StateByProgress ==
    \A x \in DOMAIN be_log :
        LET log == be_log[x]
            live == {i \in 1..Len(log) : log[i].record.state # "destroyed"}
        IN  /\ \A i \in live :
                 /\ log[i].record.state = "started" <=> log[i].record.build_progress = 0
                 /\ log[i].record.state = "building" <=>
                       (0 < log[i].record.build_progress /\ log[i].record.build_progress < 100)
                 /\ log[i].record.state = "completed" <=> log[i].record.build_progress = 100
            /\ (/\ Len(log) = 3 /\ live = 1..3
                /\ [i \in 1..3 |-> log[i].game_loop] = <<0, 50, 100>>
                /\ [i \in 1..3 |-> log[i].record.build_progress] = <<0, 40, 100>>)
               => /\ [i \in 1..3 |-> log[i].record.state] = <<"started", "building", "completed">>
                  /\ [i \in 1..3 |-> log[i].record.completed_loop] = <<<<>>, <<>>, <<100>>>>

\* the building observed at 0.0, 0.4 and 1.0 in game loops 0, 50 and 100
C15_Witness ==
    \E x \in BELiveIds :
        /\ Len(be_log[x]) = 3
        /\ [i \in 1..3 |-> be_log[x][i].game_loop] = <<0, 50, 100>>
        /\ [i \in 1..3 |-> be_log[x][i].record.state] = <<"started", "building", "completed">>
        /\ buildings_data[x].build_progress = 100
        /\ completion_timestamps[buildings_data[x].tag] = 100

\* C16: the states recorded for one building id over successive frames only
\* move forward along started, building, completed, destroyed.
C16_LifecycleOnlyForward ==
    \A x \in DOMAIN be_log : \A i, j \in 1..Len(be_log[x]) :
        LET rank == [state \in {"started", "building", "completed", "destroyed"} |->
                        CASE state = "started" -> 1
                          [] state = "building" -> 2
                          [] state = "completed" -> 3
                          [] state = "destroyed" -> 4]
        IN  i < j => rank[be_log[x][i].record.state] <= rank[be_log[x][j].record.state]

(***************************************************************************)
(* OutputValidator.validate_game_state_parquet                             *)
(*                                                                         *)
(* A DataFrame is a function from column names to columns of equal length; *)
(* a cell is <<>> (NaN) or <<n>>.  The files of the model hold the two     *)
(* base columns and one building progress column.                          *)
(***************************************************************************)
MaxRows == 3

\* the cells of the progress column
ProgressCells == {<<>>, <<-10>>, <<0>>, <<30>>, <<50>>, <<100>>, <<120>>}

ProgressColumn == "p1_building_5001_progress"

DataFrames ==
    UNION {{[c \in {"game_loop", "timestamp_seconds", ProgressColumn} |->
               IF c = "game_loop" THEN [i \in 1..n |-> <<(i - 1) * 100>>]
               ELSE IF c = "timestamp_seconds"
                    THEN [i \in 1..n |-> <<Timestamp((i - 1) * 100)>>]
               ELSE cells] : cells \in [1..n -> ProgressCells]} : n \in 0..MaxRows}

\* len(df)
Rows(df) == Len(df["game_loop"])

\* (df[col] < 0) | (df[col] > 100): a comparison with NaN is False
val_out_of_range(cells) ==
    {i \in 1..Len(cells) : cells[i] # <<>> /\ (cells[i][1] < 0 \/ cells[i][1] > 100)}

\* df[col].diff() < 0: the difference with a NaN neighbour is NaN
val_decreases(cells) ==
    {i \in 2..Len(cells) :
        cells[i] # <<>> /\ cells[i - 1] # <<>> /\ cells[i][1] - cells[i - 1][1] < 0}

\* the issues _check_building_progress_monotonic finds in one column
val_progress_issues(col, cells) ==
    (IF val_out_of_range(cells) # {} THEN <<<<col, "has values outside range [0, 100]">>>>
     ELSE <<>>)
    \o (IF Cardinality(val_decreases(cells)) > 0
        THEN <<<<col, "decreases", Cardinality(val_decreases(cells)), "times">>>>
        ELSE <<>>)

\* _check_building_progress_monotonic: the columns ending in '_progress' are
\* the one progress column of the model's files
val_check_building_progress_monotonic(df, report) ==
    LET issues == val_progress_issues(ProgressColumn, df[ProgressColumn])
    IN  [report EXCEPT
           !.errors = @ \o [i \in 1..Len(issues) |->
                               <<"Building progress violation", issues[i]>>],
           !.checks = Set(@, "building_progress_monotonic", Len(issues) = 0)]

\* validate_game_state_parquet(parquet_path) for a file that exists and holds
\* df.  The base columns of the model's files are present, typed, free of NaN
\* and of duplicates, and the files have no resource, count or state column,
\* so the other checks find nothing but an empty file and columns full of NaN.
validate_game_state_parquet(df) ==
    LET r0 == [valid |-> TRUE, errors |-> <<>>, warnings |-> <<>>, checks |-> EmptyFn]
        \* _check_row_count
        r1 == [r0 EXCEPT
                 !.errors = IF Rows(df) = 0 THEN @ \o <<<<"Parquet file is empty (0 rows)">>>>
                            ELSE @,
                 !.checks = Set(@, "row_count", Rows(df) # 0)]
        r2 == val_check_building_progress_monotonic(df, r1)
        \* _check_nan_patterns: columns with more than 95% NaN
        high_nan_cols == {c \in DOMAIN df :
                            /\ Rows(df) > 0
                            /\ Cardinality({i \in 1..Rows(df) : df[c][i] = <<>>}) * 100
                                  > 95 * Rows(df)}
        r3 == [r2 EXCEPT
                 !.warnings = IF high_nan_cols # {}
                              THEN @ \o <<<<Cardinality(high_nan_cols),
                                            "columns have >95% NaN values">>>>
                              ELSE @,
                 !.checks = Set(@, "no_nan_in_base_columns", TRUE)]
    IN  [r3 EXCEPT !.valid = Len(r3.errors) = 0]

\* the cell a row value becomes in the written file: NaN and None are missing
Cell(value) == IF ToString(value) \in {ToString("NaN"), ToString("None")} THEN <<>>
               ELSE <<value>>

\* the cells of a building's progress column in the rows build_row makes of
\* the records extract() returned for the building, one row per frame, with
\* the building's columns in the schema
be_progress_cells(building_id, records) ==
    LET id == ToString(building_id)
        sch == sm_add_building_columns(
                   sm_add_base_columns([columns |-> <<>>, dtypes |-> EmptyFn]), "p1", id)
        r0 == [c \in Names(sch.columns) |-> sm_get_missing_value(sch.dtypes, c)]
    IN  [i \in 1..Len(records) |->
            Cell(wtb_add_building_to_row(r0, sch.dtypes, "p1", id, records[i].record)
                    ["p1_" \o id \o "_progress"])]

\* C17: when the build_progress reported for a live building is lower than
\* the progress recorded for it before, a violation is reported for the
\* observation and the frame's row carries the reported value.
C17_DecreaseReportedRowKeepsValue ==
    \A x \in BELiveIds :
        LET log == be_log[x]
            n == Len(log)
            cells == be_progress_cells(x, log)
        IN  (/\ n > 1
             /\ log[n - 1].record.state # "destroyed"
             /\ log[n].record.build_progress < log[n - 1].record.build_progress)
            => /\ cells[n] = <<log[n].record.build_progress>>
               /\ val_progress_issues("progress", cells) # <<>>

ValInit ==
    /\ val_parquet = <<>>
    /\ val_report = <<>>

\* a job wrote its game state file
ValWrite ==
    /\ val_parquet = <<>>
    /\ \E df \in DataFrames : val_parquet' = <<df>>
    /\ UNCHANGED val_report
    /\ UNCHANGED <<ueVars, utVars, rowVars, batchVars, beVars, pipeVars, scanVars, ownVars, lifeVars, sampleVars>>

\* OutputValidator.validate_game_state_parquet(parquet_path)
ValValidate ==
    /\ Len(val_parquet) = 1
    /\ val_report = <<>>
    /\ val_report' = <<validate_game_state_parquet(val_parquet[1])>>
    /\ UNCHANGED val_parquet
    /\ UNCHANGED <<ueVars, utVars, rowVars, batchVars, beVars, pipeVars, scanVars, ownVars, lifeVars, sampleVars>>

ValNext == ValWrite \/ ValValidate

\* C18: in the validation pass an isolated decrease of a progress column, or
\* an isolated value out of range, is recorded as a warning and does not by
\* itself make the report invalid.
C18_IsolatedViolationIsWarning ==
    Len(val_report) = 1 =>
        LET cells == val_parquet[1][ProgressColumn]
            report == val_report[1]
        IN  (/\ Rows(val_parquet[1]) > 0
             /\ Cardinality(val_decreases(cells) \cup val_out_of_range(cells)) = 1)
            => /\ report.valid
               /\ \E i \in 1..Len(report.warnings) :
                     report.warnings[i][1] = "Building progress violation"

(***************************************************************************)
(* ReplayExtractionPipeline.process_replay                                 *)
(*                                                                         *)
(* The replays of the model hold units of player 1 only and no dead_units  *)
(* events, so of the extractors of StateExtractor only player 1's          *)
(* UnitExtractor keeps state; the others return empty dicts.  A unit that  *)
(* morphs keeps its tag and has another unit_type in a later frame; the    *)
(* replays with such a unit hold that unit alone.                          *)
(***************************************************************************)
PipeFrames == {[t \in present |-> Snapshot(1, 51, 100)] : present \in SUBSET Tags}

\* frames with the unit of tag MaxTag alone, of type 51 or morphed to type 105
MorphFrames ==
    {[t \in present |-> k] : present \in SUBSET {MaxTag},
                             k \in {Snapshot(1, 51, 100), Snapshot(1, 105, 100)}}

Replays ==
    UNION {[1..n -> PipeFrames] \cup [1..n -> MorphFrames] : n \in 1..MaxFrames}

\* f"p{self.player_id}_{unit_type_name}_{counter:03d}"
IdText(id) ==
    "p" \o ToString(id[1]) \o "_" \o id[2][1] \o ToString(id[2][2]) \o "_"
        \o ToString(id[3][1]) \o ToString(id[3][2]) \o ToString(id[3][3])

\* StateExtractor.reset()
NewExtractor ==
    [tag_to_readable_id |-> EmptyFn, unit_type_counters |-> EmptyFn,
     previous_tags |-> {}, all_seen_tags |-> {}]

\* SchemaManager.__init__
NewSchema ==
    LET sch == sm_add_base_columns([columns |-> <<>>, dtypes |-> EmptyFn])
    IN  [columns |-> sch.columns, dtypes |-> sch.dtypes,
         seen_units |-> {}, seen_buildings |-> {}]

\* UnitExtractor.extract(obs) on an extractor state: the state after the call
\* and the dict returned
ue_extract(ext, units, dead_units) ==
    LET st == ue_process_units(units, 1, ext.previous_tags,
                [ids |-> ext.tag_to_readable_id, counters |-> ext.unit_type_counters,
                 seen |-> ext.all_seen_tags, current |-> {}, data |-> EmptyFn])
        withDead == ue_mark_dead(st.data, st.ids, ext.previous_tags, st.current)
        withEvent == ue_mark_event_dead(withDead, st.ids, st.seen, dead_units)
    IN  [extractor |-> [tag_to_readable_id |-> st.ids, unit_type_counters |-> st.counters,
                        previous_tags |->
                            ue_commit_previous_tags(ext.previous_tags, st.current),
                        all_seen_tags |-> st.seen],
         units_data |-> withEvent]

\* StateExtractor.extract_observation(obs, game_loop)
extract_observation(ext, frame, game_loop) ==
    LET e == ue_extract(ext, RawUnits(frame, FALSE), {})
        p1_units == [k \in {IdText(x) : x \in DOMAIN e.units_data} |->
                        e.units_data[CHOOSE x \in DOMAIN e.units_data : IdText(x) = k]]
    IN  [extractor |-> e.extractor,
         state |-> [game_loop |-> game_loop,
                    units |-> [p \in {"p1", "p2"} |-> IF p = "p1" THEN p1_units ELSE EmptyFn],
                    buildings |-> [p \in {"p1", "p2"} |-> EmptyFn],
                    messages |-> <<>>]]

\* SchemaManager._discover_entities_from_state(state) on a schema
sm_discover_entities_from_state(schema, state) ==
    LET u == sm_discover_units([columns |-> schema.columns, dtypes |-> schema.dtypes],
                               schema.seen_units, state, 1)
        b == sm_discover_buildings(u.sch, schema.seen_buildings, state, 1)
        sch == sm_add_upgrade_columns(sm_add_economy_columns(b.sch))
    IN  [columns |-> sch.columns, dtypes |-> sch.dtypes,
         seen_units |-> u.seen, seen_buildings |-> b.seen]

\* _extract_and_write with the schema updated in every frame of either mode
pipe_update_schema_always(mode, schema, state) ==
    sm_discover_entities_from_state(schema, state)

\* _extract_and_write: "if self.processing_mode == 'single_pass':
\*     self.schema_manager._discover_entities_from_state(state)"
pipe_update_schema(mode, schema, state) ==
    IF mode = "single_pass" THEN sm_discover_entities_from_state(schema, state)
    ELSE schema

\* a loop body that builds the row before it registers the frame's entities
pipe_row_schema_before_discovery(before, after) == before

\* _extract_and_write: build_row follows _discover_entities_from_state in the
\* loop body, so the row is built from the columns the schema has after it
pipe_row_schema(before, after) == after

PipeInit ==
    /\ pipe_pc = "idle"
    /\ processing_mode = "two_pass"
    /\ step_size = 1
    /\ pipe_replay = <<>>
    /\ pipe_position = 0
    /\ pipe_game_loop = 0
    /\ pipe_broken = FALSE
    /\ pipe_extractor = NewExtractor
    /\ pipe_schema = NewSchema
    /\ pipe_rows = <<>>

\* process_replay of a pipeline built with a processing mode and a step size,
\* or of a pipeline that has processed a replay before (its mode and step
\* size were set by __init__): state_extractor.reset(), then the first loop
\* of the mode.  schema_manager is not reset.
PipeStart ==
    /\ pipe_pc \in {"idle", "done"}
    /\ \E replay \in Replays, mode \in {"two_pass", "single_pass"}, step \in {1, 2} :
          /\ pipe_pc = "done" => mode = processing_mode /\ step = step_size
          /\ pipe_replay' = replay
          /\ processing_mode' = mode
          /\ step_size' = step
          /\ pipe_pc' = IF mode = "two_pass" THEN "pass1" ELSE "pass2"
    /\ pipe_extractor' = NewExtractor
    /\ pipe_position' = 0
    /\ pipe_game_loop' = 0
    /\ pipe_broken' = FALSE
    /\ pipe_rows' = <<>>
    /\ UNCHANGED pipe_schema
    /\ UNCHANGED <<ueVars, utVars, rowVars, batchVars, beVars, valVars, scanVars, ownVars, lifeVars, sampleVars>>

\* build_schema_from_replay: one iteration of its loop (controller.step(1))
PipeScanFrame ==
    /\ pipe_pc = "pass1"
    /\ pipe_position < Len(pipe_replay)
    /\ LET o == extract_observation(pipe_extractor, pipe_replay[pipe_position + 1],
                                    pipe_position)
       IN  /\ pipe_extractor' = o.extractor
           /\ pipe_schema' = sm_discover_entities_from_state(pipe_schema, o.state)
    /\ pipe_position' = pipe_position + 1
    /\ UNCHANGED <<pipe_pc, processing_mode, step_size, pipe_replay, pipe_game_loop,
                   pipe_broken, pipe_rows>>
    /\ UNCHANGED <<ueVars, utVars, rowVars, batchVars, beVars, valVars, scanVars, ownVars, lifeVars, sampleVars>>

\* build_schema_from_replay: an exception in the loop ends the scan ("break");
\* _two_pass_processing goes on with the schema found so far
PipeScanBreak ==
    /\ pipe_pc = "pass1"
    /\ pipe_position < Len(pipe_replay)
    /\ pipe_pc' = "pass2"
    /\ pipe_extractor' = NewExtractor
    /\ pipe_position' = 0
    /\ UNCHANGED <<processing_mode, step_size, pipe_replay, pipe_game_loop, pipe_broken,
                   pipe_schema, pipe_rows>>
    /\ UNCHANGED <<ueVars, utVars, rowVars, batchVars, beVars, valVars, scanVars, ownVars, lifeVars, sampleVars>>

\* _two_pass_processing after the scan reached the end of the replay:
\* WideTableBuilder(schema_manager), state_extractor.reset()
PipeScanEnd ==
    /\ pipe_pc = "pass1"
    /\ pipe_position >= Len(pipe_replay)
    /\ pipe_pc' = "pass2"
    /\ pipe_extractor' = NewExtractor
    /\ pipe_position' = 0
    /\ UNCHANGED <<processing_mode, step_size, pipe_replay, pipe_game_loop, pipe_broken,
                   pipe_schema, pipe_rows>>
    /\ UNCHANGED <<ueVars, utVars, rowVars, batchVars, beVars, valVars, scanVars, ownVars, lifeVars, sampleVars>>

\* the observation after controller.step(step_size); the replay stops at its end
\* a controller that starts the replay again when it is stepped past its end
StepTo_restart(position, step, replay) ==
    IF position + step > Len(replay) THEN 1 ELSE position + step

\* controller.step(count) then observe(): the game loop of the observation
StepTo(position, step, replay) ==
    IF position + step > Len(replay) THEN Len(replay) ELSE position + step

\* _extract_and_write: one iteration of its loop ("while game_loop < max_loops")
\* in which nothing raises
PipeExtractFrame ==
    /\ pipe_pc = "pass2"
    /\ pipe_game_loop < Len(pipe_replay)
    /\ pipe_position < Len(pipe_replay)
    /\ ~pipe_broken
    /\ LET game_loop == StepTo(pipe_position, step_size, pipe_replay)
           o == extract_observation(pipe_extractor, pipe_replay[game_loop], game_loop)
           schema == pipe_update_schema(processing_mode, pipe_schema, o.state)
       IN  /\ pipe_position' = game_loop
           /\ pipe_game_loop' = game_loop
           /\ pipe_extractor' = o.extractor
           /\ pipe_schema' = schema
           /\ pipe_rows' =
                  LET sch == pipe_row_schema(pipe_schema, schema)
                  IN  Append(pipe_rows, wtb_build_row(sch.columns, sch.dtypes, o.state))
    /\ UNCHANGED <<pipe_pc, processing_mode, step_size, pipe_replay, pipe_broken>>
    /\ UNCHANGED <<ueVars, utVars, rowVars, batchVars, beVars, valVars, scanVars, ownVars, lifeVars, sampleVars>>

\* _extract_and_write: observe() raises after the step; the frame is logged
\* and skipped ("continue") before game_loop is assigned
PipeSkipFrame ==
    /\ pipe_pc = "pass2"
    /\ pipe_game_loop < Len(pipe_replay)
    /\ pipe_position < Len(pipe_replay)
    /\ ~pipe_broken
    /\ pipe_position' = StepTo(pipe_position, step_size, pipe_replay)
    /\ UNCHANGED <<pipe_pc, processing_mode, step_size, pipe_replay, pipe_game_loop,
                   pipe_broken, pipe_extractor, pipe_schema, pipe_rows>>
    /\ UNCHANGED <<ueVars, utVars, rowVars, batchVars, beVars, valVars, scanVars, ownVars, lifeVars, sampleVars>>

\* _extract_and_write: controller.step raises, in this iteration and in every
\* later one (the replay has ended, the SC2 process is gone); the error is
\* logged and the loop continues with game_loop unchanged
PipeStepFails ==
    /\ pipe_pc = "pass2"
    /\ pipe_game_loop < Len(pipe_replay)
    /\ pipe_broken' = TRUE
    /\ UNCHANGED <<pipe_pc, processing_mode, step_size, pipe_replay, pipe_position,
                   pipe_game_loop, pipe_extractor, pipe_schema, pipe_rows>>
    /\ UNCHANGED <<ueVars, utVars, rowVars, batchVars, beVars, valVars, scanVars, ownVars, lifeVars, sampleVars>>

\* _extract_and_write after its loop: the rows are written
PipeFinish ==
    /\ pipe_pc = "pass2"
    /\ pipe_game_loop >= Len(pipe_replay)
    /\ pipe_pc' = "done"
    /\ UNCHANGED <<processing_mode, step_size, pipe_replay, pipe_position,
                   pipe_game_loop, pipe_broken, pipe_extractor, pipe_schema, pipe_rows>>
    /\ UNCHANGED <<ueVars, utVars, rowVars, batchVars, beVars, valVars, scanVars, ownVars, lifeVars, sampleVars>>

\* ReplayExtractionPipeline.__init__: the next job gets a new pipeline
PipeNew ==
    /\ pipe_pc = "done"
    /\ pipe_pc' = "idle"
    /\ processing_mode' = "two_pass"
    /\ step_size' = 1
    /\ pipe_replay' = <<>>
    /\ pipe_position' = 0
    /\ pipe_game_loop' = 0
    /\ pipe_broken' = FALSE
    /\ pipe_extractor' = NewExtractor
    /\ pipe_schema' = NewSchema
    /\ pipe_rows' = <<>>
    /\ UNCHANGED <<ueVars, utVars, rowVars, batchVars, beVars, valVars, scanVars, ownVars, lifeVars, sampleVars>>

\* one iteration of the loop of _extract_and_write, whatever its outcome
PipeIteration == PipeExtractFrame \/ PipeSkipFrame \/ PipeStepFails

\* an iteration can change the state: the loop condition holds and the
\* controller still answers
PipeIterationEnabled ==
    /\ pipe_pc = "pass2"
    /\ pipe_game_loop < Len(pipe_replay)
    /\ ~pipe_broken

PipeNext ==
    \/ PipeStart
    \/ PipeScanFrame
    \/ PipeScanBreak
    \/ PipeScanEnd
    \/ PipeExtractFrame
    \/ PipeSkipFrame
    \/ PipeStepFails
    \/ PipeFinish
    \/ PipeNew

\* C12: after a unit is recorded 'killed' in a frame's row, every later row of
\* the job holds 'killed' in the unit's state column and the missing value in
\* the unit's other columns.
C12_TerminalMarkerRetained ==
    \A u \in pipe_schema.seen_units : \A i, j \in 1..Len(pipe_rows) :
        LET state_col == "p1_" \o u \o "_state"
            other == {"p1_" \o u \o "_" \o UNIT_COLUMNS[k].attr :
                         k \in 1..(Len(UNIT_COLUMNS) - 1)}
        IN  (/\ i < j
             /\ state_col \in DOMAIN pipe_rows[i]
             /\ pipe_rows[i][state_col] = "killed")
            => /\ state_col \in DOMAIN pipe_rows[j]
               /\ pipe_rows[j][state_col] = "killed"
               /\ \A c \in other \cap DOMAIN pipe_rows[j] :
                     Cell(pipe_rows[j][c]) = <<>>

\* C19: in two-pass mode every row of a job has the same key set, the column
\* list of the schema, which is complete before the first row is built.
C19_TwoPassRowsHaveFinalColumns ==
    processing_mode = "two_pass" =>
        \A i \in 1..Len(pipe_rows) : DOMAIN pipe_rows[i] = Names(pipe_schema.columns)

\* a finished two-pass job whose second row reports a unit the first row had
\* no value for
C19_Witness ==
    /\ pipe_pc = "done"
    /\ processing_mode = "two_pass"
    /\ Len(pipe_rows) >= 2
    /\ \E u \in pipe_schema.seen_units :
          LET state_col == "p1_" \o u \o "_state"
          IN  /\ state_col \in DOMAIN pipe_rows[1]
              /\ pipe_rows[1][state_col] = "None"
              /\ pipe_rows[2][state_col] = "built"
    /\ \A i \in 1..Len(pipe_rows) : DOMAIN pipe_rows[i] = Names(pipe_schema.columns)

(***************************************************************************)
(* The type filters of UnitExtractor.extract and BuildingExtractor.extract *)
(* applied to the same owned object of an observation.                     *)
(***************************************************************************)
MaxTypeId == 150

\* unit_type values of SC2 objects
UnitTypeIds == 1..MaxTypeId

\* the extractors that do not skip an owned object of the type: UnitExtractor
\* skips what its is_building accepts, BuildingExtractor what its own
\* is_building rejects
ReportedBy(unit_type_id) ==
    {x \in {"UnitExtractor"} : ~is_building(unit_type_id)}
        \cup {x \in {"BuildingExtractor"} : be_is_building(unit_type_id)}

OwnInit ==
    /\ own_type = <<>>
    /\ own_reported = {}

\* extract_units and extract_buildings of the owner on an observation that
\* holds an object of the type
OwnExtract ==
    /\ \E unit_type_id \in UnitTypeIds :
          /\ own_type' = <<unit_type_id>>
          /\ own_reported' = ReportedBy(unit_type_id)
    /\ UNCHANGED <<ueVars, utVars, rowVars, batchVars, beVars, valVars, pipeVars, scanVars, lifeVars, sampleVars>>

OwnNext == OwnExtract

\* C36: an owned object of an observation is reported by exactly one of
\* UnitExtractor and BuildingExtractor, whatever its unit type.
C36_ReportedByExactlyOneExtractor ==
    own_type # <<>> => Cardinality(own_reported) = 1

(***************************************************************************)
(* Two independent runs of SchemaManager.build_schema_from_replay over the *)
(* same replay.  A run has its own interpreter (hash seed), its own        *)
(* StateExtractor and its own SchemaManager; the observations of a run     *)
(* list the units of a frame in ascending or in descending tag order.      *)
(***************************************************************************)
\* tag 1 is an own unit of type 51, any other tag an own unit of type 51 or 105
ScanKinds(tag) ==
    IF tag = 1 THEN {Snapshot(1, 51, 100)}
    ELSE {Snapshot(1, 51, 100), Snapshot(1, 105, 100)}

ScanFrames ==
    UNION {{f \in [present -> UnitKinds] : \A t \in present : f[t] \in ScanKinds(t)} :
             present \in SUBSET Tags}

ScanReplays == UNION {[1..n -> ScanFrames] : n \in 1..MaxFrames}

\* PYTHONHASHSEED of a run
HashSeeds == {0, 1}

\* iteration over a set of str: the order depends on the hash seed
str_set_items(inserted, seed) == IF seed = 0 THEN inserted ELSE Reverse(inserted)

\* "for unit_id, unit_data in state[units_key].items()": a dict is iterated
\* in insertion order, whatever the hash seed
dict_items(inserted, seed) == inserted

\* the keys of the dict UnitExtractor.extract returns, in insertion order:
\* the own units in the order of raw_data.units, then the ids of dead_tags
\* (a set of int, iterated in an order that depends on the tags alone)
ue_units_data_keys(ids, units, prev) ==
    LET Own(u) == u.owner = player_id /\ ~is_building(u.unit_type)
        own == SelectSeq(units, Own)
        current == {own[i].tag : i \in 1..Len(own)}
        dead == Ascending({t \in ue_dead_tags(prev, current) : t \in DOMAIN ids}, 1)
    IN  [i \in 1..Len(own) |-> IdText(ids[own[i].tag])]
            \o [i \in 1..Len(dead) |-> IdText(ids[dead[i]])]

\* the unit loop of _discover_entities_from_state for player 1 over the keys
\* in iteration order, then _add_economy_columns and _add_upgrade_columns
sm_discover_in_order(schema, keys) ==
    LET Fresh(k) == k \notin schema.seen_units
        fresh == SelectSeq(keys, Fresh)
        added == sm_add_entity_columns([columns |-> schema.columns,
                                        dtypes |-> schema.dtypes], "p1", fresh, "units")
        sch == sm_add_upgrade_columns(sm_add_economy_columns(added))
    IN  [columns |-> sch.columns, dtypes |-> sch.dtypes,
         seen_units |-> schema.seen_units \cup {fresh[i] : i \in 1..Len(fresh)},
         seen_buildings |-> schema.seen_buildings]

\* one iteration of the loop of build_schema_from_replay in a run
build_schema_step(run, frame) ==
    LET units == RawUnits(frame, run.descending)
        e == ue_extract(run.extractor, units, {})
        keys == ue_units_data_keys(e.extractor.tag_to_readable_id, units,
                                   run.extractor.previous_tags)
    IN  [run EXCEPT !.extractor = e.extractor,
                    !.schema = sm_discover_in_order(run.schema,
                                                    dict_items(keys, run.seed))]

\* a run before its first frame
NewRun(seed, descending) ==
    [seed |-> seed, descending |-> descending, extractor |-> NewExtractor,
     schema |-> NewSchema]

ScanInit ==
    /\ scan_replay = <<>>
    /\ scan_position = 0
    /\ scan_runs = [r \in 1..2 |-> NewRun(0, FALSE)]

\* both runs are started on a replay: new SchemaManager and StateExtractor
ScanStart ==
    /\ scan_position >= Len(scan_replay)
    /\ \E replay \in ScanReplays, seed \in HashSeeds, descending \in BOOLEAN :
          /\ scan_replay' = replay
          /\ scan_runs' = [r \in 1..2 |->
                             IF r = 1 THEN NewRun(0, FALSE) ELSE NewRun(seed, descending)]
    /\ scan_position' = 0
    /\ UNCHANGED <<ueVars, utVars, rowVars, batchVars, beVars, valVars, pipeVars, ownVars, lifeVars, sampleVars>>

\* both runs scan the next frame
ScanFrame ==
    /\ scan_position < Len(scan_replay)
    /\ scan_runs' = [r \in 1..2 |->
                       build_schema_step(scan_runs[r], scan_replay[scan_position + 1])]
    /\ scan_position' = scan_position + 1
    /\ UNCHANGED scan_replay
    /\ UNCHANGED <<ueVars, utVars, rowVars, batchVars, beVars, valVars, pipeVars, ownVars, lifeVars, sampleVars>>

ScanNext == ScanStart \/ ScanFrame

C22_ScanOrderSameColumnSet ==
    Names(scan_runs[1].schema.columns) = Names(scan_runs[2].schema.columns)

\* the second run got the records of a frame with two new units of different
\* types in the opposite order: its columns are the same set in another order
C22_Witness ==
    /\ scan_runs[2].descending
    /\ scan_position >= 1
    /\ Cardinality(scan_runs[2].schema.seen_units) >= 2
    /\ scan_runs[1].schema.columns # scan_runs[2].schema.columns
    /\ Names(scan_runs[1].schema.columns) = Names(scan_runs[2].schema.columns)

PipeExtractedIds ==
    {IdText(pipe_extractor.tag_to_readable_id[t]) :
        t \in DOMAIN pipe_extractor.tag_to_readable_id}

\* C34: in two-pass mode every entity id the extraction pass has produced for
\* a row was discovered by the pre-scan, and its state column is a column of
\* the schema.
C34_ExtractedIdsHaveScannedColumns ==
    (processing_mode = "two_pass" /\ pipe_pc \in {"pass2", "done"}) =>
        \A u \in PipeExtractedIds :
            /\ u \in pipe_schema.seen_units
            /\ ("p1_" \o u \o "_state") \in Names(pipe_schema.columns)

\* C35: in single-pass mode the last row built has every column of the schema
\* and the state column of every entity the job has observed so far, and a
\* row has every column of the rows before it: what a row lacks was first
\* discovered in a later frame.
C35_SinglePassRowHasColumnsSoFar ==
    (processing_mode = "single_pass" /\ pipe_rows # <<>>) =>
        LET last == pipe_rows[Len(pipe_rows)]
        IN  /\ DOMAIN last = Names(pipe_schema.columns)
            /\ \A u \in PipeExtractedIds : ("p1_" \o u \o "_state") \in DOMAIN last
            /\ \A i, j \in 1..Len(pipe_rows) :
                  i < j => DOMAIN pipe_rows[i] \subseteq DOMAIN pipe_rows[j]

\* a finished single-pass job whose second row reports a unit that appeared
\* in its frame, in columns the first row does not have
C35_Witness ==
    /\ pipe_pc = "done"
    /\ processing_mode = "single_pass"
    /\ Len(pipe_rows) >= 2
    /\ \E u \in PipeExtractedIds :
          LET state_col == "p1_" \o u \o "_state"
          IN  /\ state_col \notin DOMAIN pipe_rows[1]
              /\ state_col \in DOMAIN pipe_rows[2]
              /\ pipe_rows[2][state_col] = "built"

\* C27: every process_replay call starts with empty tag-to-id maps, counters
\* and previous-frame sets and with a schema of the base columns only, also
\* when the pipeline has processed a replay before.
C27_JobStartsFresh ==
    [][PipeStart => pipe_extractor' = NewExtractor /\ pipe_schema' = NewSchema]_vars

\* C33: the extraction loop of every job ends: a job that has entered the loop
\* of _extract_and_write eventually leaves it and process_replay returns,
\* also when controller.step fails in every iteration from some frame on.
C33_ExtractionLoopTerminates ==
    (pipe_pc = "pass2") ~> (pipe_pc = "done")

\* C30: a frame whose processing raises is skipped and the loop goes on with
\* the next frame, in the schema scan and in the extraction loop: the job
\* stays in the loop it was in and the frame position advances past the frame.
C30_FailedFrameSkippedJobContinues ==
    [][(PipeScanBreak \/ PipeSkipFrame) =>
          /\ pipe_pc' = pipe_pc
          /\ pipe_position' > pipe_position]_vars

(***************************************************************************)
(* UnitLifecycle of one unit id in GameStateTracker: the tracker is given  *)
(* the events of a replay in frame order and asked whether the unit is     *)
(* alive at a frame.  None is <<>>, an int n is <<n>>.                     *)
(***************************************************************************)
MaxEventFrame == 3

EventFrames == 0..MaxEventFrame

\* Python "a or b" on Optional[int]: a when a is truthy, otherwise b
py_or(a, b) == IF a # <<>> /\ a[1] # 0 THEN a ELSE b

\* UnitLifecycle(...) with the defaults of the dataclass
NewLifecycle ==
    [born_frame |-> <<>>, init_frame |-> <<>>, done_frame |-> <<>>, died_frame |-> <<>>]

\* UnitLifecycle.is_alive_at_frame(frame)
is_alive_at_frame(self, frame) ==
    LET active_frame == py_or(py_or(self.done_frame, self.born_frame), self.init_frame)
    IN  IF active_frame = <<>> THEN FALSE
        ELSE /\ active_frame[1] <= frame
             /\ (self.died_frame = <<>> \/ frame < self.died_frame[1])

LifeInit ==
    /\ life_unit = <<>>
    /\ life_frame = 0
    /\ life_query = <<>>

\* GameStateTracker.add_unit_born for a unit that is not a map unit
AddUnitBorn ==
    /\ \E frame \in EventFrames :
          /\ frame >= life_frame
          /\ life_frame' = frame
          /\ life_unit' = <<[NewLifecycle EXCEPT !.born_frame = <<frame>>]>>
    /\ life_query' = <<>>
    /\ UNCHANGED <<ueVars, utVars, rowVars, batchVars, beVars, valVars, pipeVars, scanVars, ownVars, sampleVars>>

\* GameStateTracker.add_unit_init for a unit that is not a map unit
AddUnitInit ==
    /\ \E frame \in EventFrames :
          /\ frame >= life_frame
          /\ life_frame' = frame
          /\ life_unit' = <<[NewLifecycle EXCEPT !.init_frame = <<frame>>]>>
    /\ life_query' = <<>>
    /\ UNCHANGED <<ueVars, utVars, rowVars, batchVars, beVars, valVars, pipeVars, scanVars, ownVars, sampleVars>>

\* GameStateTracker.add_unit_done: "if unit_id in self.units"
AddUnitDone ==
    /\ \E frame \in EventFrames :
          /\ frame >= life_frame
          /\ life_frame' = frame
          /\ life_unit' = IF life_unit = <<>> THEN life_unit
                           ELSE <<[life_unit[1] EXCEPT !.done_frame = <<frame>>]>>
    /\ life_query' = <<>>
    /\ UNCHANGED <<ueVars, utVars, rowVars, batchVars, beVars, valVars, pipeVars, scanVars, ownVars, sampleVars>>

\* GameStateTracker.add_unit_died: "if unit_id in self.units"
AddUnitDied ==
    /\ \E frame \in EventFrames :
          /\ frame >= life_frame
          /\ life_frame' = frame
          /\ life_unit' = IF life_unit = <<>> THEN life_unit
                           ELSE <<[life_unit[1] EXCEPT !.died_frame = <<frame>>]>>
    /\ life_query' = <<>>
    /\ UNCHANGED <<ueVars, utVars, rowVars, batchVars, beVars, valVars, pipeVars, scanVars, ownVars, sampleVars>>

\* _count_units: lifecycle.is_alive_at_frame(frame) on the unit of the tracker
IsAliveAtFrame ==
    /\ life_unit # <<>>
    /\ \E frame \in EventFrames :
          life_query' = <<[frame |-> frame, alive |-> is_alive_at_frame(life_unit[1], frame)]>>
    /\ UNCHANGED <<life_unit, life_frame>>
    /\ UNCHANGED <<ueVars, utVars, rowVars, batchVars, beVars, valVars, pipeVars, scanVars, ownVars, sampleVars>>

LifeNext == AddUnitBorn \/ AddUnitInit \/ AddUnitDone \/ AddUnitDied \/ IsAliveAtFrame

\* the frame a unit becomes active: its done frame, else its born frame, else
\* its init frame; <<>> when it has none
ActivationFrame(lifecycle) ==
    IF lifecycle.done_frame # <<>> THEN lifecycle.done_frame
    ELSE IF lifecycle.born_frame # <<>> THEN lifecycle.born_frame
    ELSE lifecycle.init_frame

\* C38: is_alive_at_frame(f) returns true whenever the unit has an activation
\* frame a with a <= f and has not died at or before f, for every value of a,
\* frame 0 included.
C38_AliveFromActivationToDeath ==
    life_query # <<>> =>
        LET lifecycle == life_unit[1]
            f == life_query[1].frame
            a == ActivationFrame(lifecycle)
        IN  (/\ a # <<>>
             /\ a[1] <= f
             /\ (lifecycle.died_frame = <<>> \/ f < lifecycle.died_frame[1]))
            => life_query[1].alive

(***************************************************************************)
(* FrameSampler.sample_frames: the state the tracker returns for a frame   *)
(* is written as the frame.                                                *)
(***************************************************************************)
MaxReplayFrames == 24

MaxInterval == 5

\* list(range(0, stop, step)) for step > 0
py_range(stop, step) ==
    [i \in 1..((stop + step - 1) \div step) |-> (i - 1) * step]

\* FrameSampler(interval_frames).sample_frames(replay, tracker)
sample_frames(frames, interval_frames) ==
    LET sampled == py_range(frames, interval_frames)
    IN  IF frames % interval_frames # 0 THEN Append(sampled, frames) ELSE sampled

SampleInit ==
    /\ sample_call = <<>>
    /\ samples = <<>>

SampleFrames ==
    /\ \E frames \in 1..MaxReplayFrames, interval_frames \in 1..MaxInterval :
          /\ sample_call' = <<[frames |-> frames, interval_frames |-> interval_frames]>>
          /\ samples' = sample_frames(frames, interval_frames)
    /\ UNCHANGED <<ueVars, utVars, rowVars, batchVars, beVars, valVars, pipeVars, scanVars, ownVars, lifeVars>>

SampleNext == SampleFrames

\* C39: the list sample_frames returns is in strictly increasing frame
\* order, holds the frames 0, interval, 2*interval, ... below the final frame
\* and holds the final frame replay.frames exactly once.
C39_SamplesIncludeFinalFrameOnce ==
    sample_call # <<>> =>
        LET frames == sample_call[1].frames
            interval_frames == sample_call[1].interval_frames
        IN  /\ \A i, j \in 1..Len(samples) : i < j => samples[i] < samples[j]
            /\ \A f \in 0..(frames - 1) :
                  f % interval_frames = 0 => \E i \in 1..Len(samples) : samples[i] = f
            /\ Cardinality({i \in 1..Len(samples) : samples[i] = frames}) = 1

Init ==
    /\ UEInit /\ UTInit /\ RowInit /\ BatchInit /\ BEInit /\ ValInit /\ PipeInit
    /\ ScanInit
    /\ OwnInit
    /\ LifeInit
    /\ SampleInit

SpecUE == Init /\ [][UENext]_vars

SpecUEMalformed == Init /\ [][UEMalformedNext]_vars

SpecUT == Init /\ [][UTNext]_vars

SpecRow == Init /\ [][RowNext]_vars

SpecBatch == Init /\ [][BatchNext]_vars

SpecBE == Init /\ [][BENext]_vars

SpecVal == Init /\ [][ValNext]_vars

SpecPipe == Init /\ [][PipeNext]_vars

\* the job's thread is never suspended: the loop of _extract_and_write keeps
\* iterating and its exit is taken once its condition is false. The first
\* conjunct is weak fairness of PipeIteration, written with the iteration's
\* enabling condition
SpecPipeLive ==
    /\ Init
    /\ [][PipeNext]_vars
    /\ ([]<>(~PipeIterationEnabled) \/ []<><<PipeIteration>>_vars)
    /\ WF_vars(PipeFinish)

SpecScan == Init /\ [][ScanNext]_vars

SpecOwn == Init /\ [][OwnNext]_vars

SpecLife == Init /\ [][LifeNext]_vars

SpecSample == Init /\ [][SampleNext]_vars

====
